---- MODULE Spec2Model ----
(***************************************************************************)
(* Model of the IRC bridge (irc.js, here src/unnamed/part_007): per-network *)
(* channel membership tracking, the socket close / motd reconnect cycle and *)
(* the sqlite persistence path with its retry buffers.                      *)
(***************************************************************************)
EXTENDS Integers, Sequences, FiniteSets, TLC

\* ------------------------------------------------------------------ bounds
MaxEvents == 3
MaxCloses == 2
MaxMotds == 2

\* ------------------------------------------------------------- input sets
Hosts == {"n1", "n2"}

\* spec.nick, the nickname every network is configured with.
OwnNick == "bot"

\* What the connection's user object may hold: nick and user modes.
Users == [nick : {OwnNick, "bot_"}, modes : {{}, {"i"}}]
Nicks == {"alice", "bob"}
RawChannels == {"#a", "#b"}
NoVal == ""

VARIABLES
  specServers,      \* host -> [present, channels: Seq of chanSpec]
  disconnectedBots, \* host -> BOOLEAN (a Date is stored; only presence is read)
  motdListeners,    \* host -> number of 'motd' listeners the close handler installed
  readyCount,       \* host -> number of irc:ready records published after startup
  pending,          \* adjustChannelUsersOnEvent calls suspended at the await
  unhandled,        \* number of rejected promises nobody handles
  delivered,        \* number of protocol events delivered so far
  closes,           \* host -> number of 'socket close' events so far
  motds,            \* number of 'motd' events so far
  reconnects,       \* history: host -> motd events that ended a disconnect
  refNicks,         \* history: host -> channel name -> nick set by the 4.2 rules
  lastEv,           \* history: the event delivered last, its host, the channels before it
  warnings,         \* number of irc:warning:duplicateChannelSpecs records published
  user,             \* host -> [nick, modes]: connectedIRC.bots[host].user
  lastReady         \* history: the irc:ready record published last, the user then

ircVars == <<specServers, disconnectedBots, motdListeners, readyCount, pending,
             unhandled, delivered, closes, motds, reconnects, refNicks, lastEv,
             warnings, user, lastReady>>

VARIABLES
  writes,        \* record id -> [path, isEvent, pc, first]: the logDataToFile calls
                 \* so far; first is the result of the first sqlite attempt (history)
  dbFile,        \* path -> BOOLEAN: <path>.sqlite3 exists (fs.promises.stat succeeds)
  store,         \* path -> rows of table channel, in insertion order
  jsonl,         \* path -> lines of the plain file at the path stem
  sqliteBuffer,  \* path -> [exists, entries, timer]: global.sqliteBuffer
  sweeps,        \* processSqliteBuffer runs in progress: [path, todo, failed]
  logs,          \* console.error lines: [kind, rec]
  rejections,    \* promises rejected with no handler
  phase,         \* "running", "quitting" (SIGINT handler awaiting closes), "exited"
  quitIdx,       \* index in HostOrder of the bot whose close is awaited
  exitPublished, \* number of irc:exit records published
  quitSent,      \* history: hosts told to quit by the SIGINT handler, in order
  closeAcks,     \* history: hosts whose 'close' resolved the handler's await, in order
  quitLanded,    \* the quit of the bot being awaited went out on an open socket
  busyLeft,      \* transient failures the environment may still produce
  busyOrder,     \* history: path -> records in the order their first insert failed busy
  sweepsFired,   \* history: path -> sweeps that took a batch
  sweepTook,     \* history: path -> records taken by sweeps
  sweepRejects   \* history: path -> sweep inserts that did not succeed

perVars == <<writes, dbFile, store, jsonl, sqliteBuffer, sweeps, logs, rejections,
             phase, quitIdx, exitPublished, busyLeft, busyOrder, sweepsFired,
             sweepTook, sweepRejects, quitSent, closeAcks, quitLanded>>

VARIABLES
  msgHandlers,    \* host -> lower-cased targets with a registered handler
  channelsToFile, \* config.irc.log.channelsToFile
  lastMsg,        \* history: the 'message' event handled last, its host, the registry then
  lastOut         \* history: what the handler did with it: [kind, pubs, logCall, error]

msgVars == <<msgHandlers, channelsToFile, lastMsg, lastOut>>

VARIABLES
  registered, \* config.irc.registered as Object.entries lists it: [host, port, cert]
  bootIdx,    \* index of the entry the startup loop of main is at
  bootPc,     \* "loop", "await" (in await connectIRCClient), "ready", "failed"
  bootError,  \* message of the error main was rejected with
  bots,       \* hosts with a session in connectedIRC.bots
  readyData,  \* hosts pushed to readyData
  bootLog     \* history: publications, connect calls and client events, in order

bootVars == <<registered, bootIdx, bootPc, bootError, bots, readyData, bootLog>>

VARIABLES
  latency,  \* stats.latency: host -> [set, ms]
  lastPong, \* history: the 'pong' event handled last: host, message, clock, latency before
  pongOut   \* history: what the listener did with it: [pubs, error]

pongVars == <<latency, lastPong, pongOut>>

VARIABLES
  diskVersion,     \* version of irc/ipcMessage.js and irc/genEvHandler.js on disk
  handlers,        \* [ipcMessageHandler, genEvHandler]: the version each is bound to
  reloadResponses, \* number of __c2::irc:reload responses published
  reloads,         \* history: number of irc:reload messages handled
  loadedAt,        \* history: the version on disk when the handlers were last loaded
  lastIpc          \* history: [n, handler]: IPC messages handled, version used for the last

reloadVars == <<diskVersion, handlers, reloadResponses, reloads, loadedAt, lastIpc>>

VARIABLES
  ls,             \* the LogStream: [active, heartbeat, process] (process 0: none)
  procs,          \* log process id -> "none", "running", "killed" (its 'close' is due)
  streams,        \* StreamManager.streams has the stream under its streamId
  created,        \* createStream has been called for the streamId
  starts,         \* start() calls suspended at an await: [id, origin, pc]
  startCount,     \* start() calls that went past the active check
  restartTimers,  \* pending 5 s timers of the 'close' handler
  restartWaits,   \* restart() calls in their 5 s wait
  restartCount,   \* restart timers set so far
  expired,        \* Date.now() is past expiresAt
  stopRequested,  \* history: stopStream has stopped the stream
  afterStop,      \* history: what happened after that: [activated, spawned]
  streamRejects   \* rejected promises of restart() that nobody handles

streamVars == <<ls, procs, streams, created, starts, startCount, restartTimers,
                restartWaits, restartCount, expired, stopRequested, afterStop,
                streamRejects>>

VARIABLES
  healthCheckResponse, \* requestId of the check whose resolver is held, 0 for null
  logManagerAvailable, \* result of the last check
  checkedLately,       \* Date.now() - lastHealthCheck < HEALTH_CHECK_INTERVAL
  checks,              \* requestId -> "none", "pending", "resolved", "rejected"
  healthTimers,        \* requestIds whose 5 s timeout is set
  healthReplies        \* requestIds of health responses on their way

healthVars == <<healthCheckResponse, logManagerAvailable, checkedLately, checks,
                healthTimers, healthReplies>>

VARIABLES
  redisMembers, \* the members of the set in Redis
  cache,        \* RedisSet._set
  inited,       \* RedisSet._init
  initPc,       \* init(): "idle", "sent", "read" (smembers answered, not yet assigned)
  initRead,     \* the members smembers returned
  setCalls,     \* add / delete calls in flight: [id, op, member, pc]
  setCallCount  \* add / delete calls issued

redisVars == <<redisMembers, cache, inited, initPc, initRead, setCalls, setCallCount>>

\* What an action of one part leaves alone: the variables of the other parts.
HealthFrame ==
  UNCHANGED <<ircVars, perVars, msgVars, bootVars, pongVars, reloadVars, streamVars, redisVars>>

RedisFrame ==
  UNCHANGED <<ircVars, perVars, msgVars, bootVars, pongVars, reloadVars, streamVars, healthVars>>

IrcFrame ==
  UNCHANGED <<perVars, msgVars, bootVars, pongVars, reloadVars, streamVars, healthVars, redisVars>>

PerFrame ==
  UNCHANGED <<ircVars, msgVars, bootVars, pongVars, reloadVars, streamVars, healthVars, redisVars>>

MsgFrame ==
  UNCHANGED <<ircVars, perVars, bootVars, pongVars, reloadVars, streamVars, healthVars, redisVars>>

BootFrame ==
  UNCHANGED <<ircVars, perVars, msgVars, pongVars, reloadVars, streamVars, healthVars, redisVars>>

PongFrame ==
  UNCHANGED <<ircVars, perVars, msgVars, bootVars, reloadVars, streamVars, healthVars, redisVars>>

StreamFrame ==
  UNCHANGED <<ircVars, perVars, msgVars, bootVars, pongVars, reloadVars, healthVars, redisVars>>

ReloadFrame ==
  UNCHANGED <<ircVars, perVars, msgVars, bootVars, pongVars, streamVars, healthVars, redisVars>>

\* ---------------------------------------------------------------- LiveNicks
\* irc/liveNicks.js is not part of the sources: a set of nicks with
\* add / delete / has / swap.
LiveNicksAdd(s, n) == s \cup {n}

LiveNicksDelete(s, n) == s \ {n}

LiveNicksHas(s, n) == n \in s

LiveNicksSwap(s, old, new) == (s \ {old}) \cup {new}

\* util.resolveNameForDiscord: the canonical name of a raw channel name.
resolveNameForDiscord(h, c) ==
  CASE c = "#a" -> "a"
    [] c = "#b" -> "b"
    [] OTHER -> c

CanonChannels == {resolveNameForDiscord(h, c) : h \in Hosts, c \in RawChannels}

\* ------------------------------------------------------------------ events
Ev(t, c, n, k, nn) ==
  [type |-> t, channel |-> c, nick |-> n, kicked |-> k, new_nick |-> nn]

JoinEvents == {Ev("join", c, n, NoVal, NoVal) : c \in RawChannels, n \in Nicks}

PartEvents == {Ev("part", c, n, NoVal, NoVal) : c \in RawChannels, n \in Nicks}

KickEvents ==
  {Ev("kick", c, n, k, NoVal) : c \in RawChannels, n \in Nicks, k \in Nicks}

QuitEvents == {Ev("quit", NoVal, n, NoVal, NoVal) : n \in Nicks}

NickEvents ==
  {Ev("nick", NoVal, n, NoVal, nn) : n \in Nicks, nn \in Nicks}

OtherEvents == {Ev("topic", "#a", "alice", NoVal, NoVal)}

AllEvents ==
  JoinEvents \cup PartEvents \cup {e \in KickEvents : e.kicked # e.nick}
    \cup QuitEvents \cup {e \in NickEvents : e.new_nick # e.nick} \cup OtherEvents

NoEvent ==
  [host |-> NoVal, ev |-> Ev(NoVal, NoVal, NoVal, NoVal, NoVal), before |-> <<>>,
   handler |-> 0]

channelUserModifyingEvents == {"quit", "kick", "join", "part", "nick"}

\* ------------------------------------------------------------- chan specs
createNewChanSpec(name) == [name |-> name, liveNicks |-> {}]

NoServer == [present |-> FALSE, channels |-> <<>>]

\* The channel lists an IPC message may install for a network.
ChannelLists == {<<"a", "b">>, <<"a">>}

NewServer(names) ==
  [present |-> TRUE,
   channels |-> [i \in 1..Len(names) |-> createNewChanSpec(names[i])]]

\* The nicks believed joined to canonical channel c of server record s.
LiveOf(s, c) ==
  UNION {s.channels[i].liveNicks : i \in {j \in 1..Len(s.channels) : s.channels[j].name = c}}

HasChannel(s, c) == \E i \in 1..Len(s.channels) : s.channels[i].name = c

\* Index of the first chanSpec named c, 0 when there is none ([chanSpec] = chanSpecs).
FirstSpec(chans, c) ==
  IF \E i \in 1..Len(chans) : chans[i].name = c
    THEN CHOOSE i \in 1..Len(chans) :
           chans[i].name = c /\ \A j \in 1..(i - 1) : chans[j].name # c
    ELSE 0

\* chanSpecs: the chanSpecs named c (specServers[host].channels.filter).
chanSpecs(chans, c) == {i \in 1..Len(chans) : chans[i].name = c}

\* An adjustChannelUsersOnEvent that never reports duplicates.
DuplicateWarningsNever(chans, c) == 0

\* The irc:warning:duplicateChannelSpecs records one call publishes.
DuplicateWarnings(chans, c) == IF Cardinality(chanSpecs(chans, c)) > 1 THEN 1 ELSE 0

\* quit branch: delete nick from every liveNicks that has it.
QuitAll(chans, n) ==
  [i \in 1..Len(chans) |->
     IF LiveNicksHas(chans[i].liveNicks, n)
       THEN [chans[i] EXCEPT !.liveNicks = LiveNicksDelete(@, n)]
       ELSE chans[i]]

\* Not the nick branch: new_nick is added and nick stays.
SwapAllKeepsOld(chans, n, nn) ==
  [i \in 1..Len(chans) |->
     IF LiveNicksHas(chans[i].liveNicks, n)
       THEN [chans[i] EXCEPT !.liveNicks = LiveNicksAdd(@, nn)]
       ELSE chans[i]]

\* nick branch: swap nick for new_nick in every liveNicks that has it.
SwapAll(chans, n, nn) ==
  [i \in 1..Len(chans) |->
     IF LiveNicksHas(chans[i].liveNicks, n)
       THEN [chans[i] EXCEPT !.liveNicks = LiveNicksSwap(@, n, nn)]
       ELSE chans[i]]

\* join / part / kick branch on the resolved chanSpec; without a chanSpec the
\* TypeError is caught by the try block and nothing changes.
MutateOne(chans, c, ev) ==
  LET i == FirstSpec(chans, c) IN
    IF i = 0 THEN chans
    ELSE IF ev.type = "join"
      THEN [chans EXCEPT ![i].liveNicks = LiveNicksAdd(@, ev.nick)]
    ELSE IF ev.type \in {"part", "kick"}
      THEN [chans EXCEPT ![i].liveNicks = LiveNicksDelete(@, ev.nick)]
    ELSE chans

\* --------------------------------------------- the section 4.2 rules (history)
RefApply(r, s, ev) ==
  LET c == resolveNameForDiscord("", ev.channel) IN
    IF ev.type = "join" /\ HasChannel(s, c) THEN [r EXCEPT ![c] = @ \cup {ev.nick}]
    ELSE IF ev.type = "part" /\ HasChannel(s, c) THEN [r EXCEPT ![c] = @ \ {ev.nick}]
    ELSE IF ev.type = "kick" /\ HasChannel(s, c) THEN [r EXCEPT ![c] = @ \ {ev.kicked}]
    ELSE IF ev.type = "quit" THEN [x \in DOMAIN r |-> r[x] \ {ev.nick}]
    ELSE IF ev.type = "nick"
      THEN [x \in DOMAIN r |->
              IF ev.nick \in r[x] THEN (r[x] \ {ev.nick}) \cup {ev.new_nick} ELSE r[x]]
    ELSE r

EmptyRef == [c \in CanonChannels |-> {}]

\* The data of the irc:ready record the 'motd' listener publishes.
ReadyRecord(h, u) == [network |-> h, nickname |-> OwnNick, userModes |-> u.modes]

NoReady ==
  [record |-> [network |-> NoVal, nickname |-> NoVal, userModes |-> {}],
   user |-> [nick |-> NoVal, modes |-> {}]]

\* ------------------------------------------------------------------- Init
IrcInit ==
  /\ specServers = [h \in Hosts |-> NoServer]
  /\ disconnectedBots = [h \in Hosts |-> FALSE]
  /\ motdListeners = [h \in Hosts |-> 0]
  /\ readyCount = [h \in Hosts |-> 0]
  /\ pending = {}
  /\ unhandled = 0
  /\ delivered = 0
  /\ closes = [h \in Hosts |-> 0]
  /\ motds = 0
  /\ reconnects = [h \in Hosts |-> 0]
  /\ refNicks = [h \in Hosts |-> EmptyRef]
  /\ lastEv = NoEvent
  /\ warnings = 0
  /\ user = [h \in Hosts |-> [nick |-> OwnNick, modes |-> {}]]
  /\ lastReady = NoReady

\* ---------------------------------------------------------------- actions
\* ipcMessageHandler installing the channel specs of a network
\* (createNewChanSpec gives each an empty LiveNicks).
IpcChannels(h, names) ==
  /\ ~specServers[h].present
  /\ specServers' = [specServers EXCEPT ![h] = NewServer(names)]
  /\ refNicks' = [refNicks EXCEPT ![h] = EmptyRef]
  /\ UNCHANGED <<disconnectedBots, motdListeners, readyCount, pending, unhandled,
                 delivered, closes, motds, reconnects, lastEv, warnings,
                 user, lastReady>>
  /\ IrcFrame

\* adjustChannelUsersOnEvent up to its first suspension point.
AdjustSync(h, ev) ==
  IF ev.type \notin channelUserModifyingEvents \/ ~specServers[h].present
    THEN UNCHANGED <<specServers, pending>>
  ELSE IF ev.channel # NoVal
    THEN /\ pending' = pending \cup {[id |-> delivered + 1, host |-> h, ev |-> ev]}
         /\ UNCHANGED specServers
  ELSE /\ specServers' =
            [specServers EXCEPT ![h].channels =
               IF ev.type = "quit" THEN QuitAll(@, ev.nick)
               ELSE IF ev.type = "nick" THEN SwapAll(@, ev.nick, ev.new_nick)
               ELSE @]
       /\ UNCHANGED pending

\* The generic listener of a protocol event: adjustChannelUsersOnEvent is
\* called and not awaited.
Deliver(h, ev) ==
  /\ delivered < MaxEvents
  /\ delivered' = delivered + 1
  /\ AdjustSync(h, ev)
  /\ refNicks' = [refNicks EXCEPT ![h] =
                    IF specServers[h].present THEN RefApply(@, specServers[h], ev) ELSE @]
  /\ lastEv' = [host |-> h, ev |-> ev, before |-> specServers[h].channels,
                handler |-> handlers.genEvHandler]
  /\ UNCHANGED <<disconnectedBots, motdListeners, readyCount, unhandled, closes,
                 motds, reconnects, warnings, user, lastReady>>
  /\ IrcFrame

\* adjustChannelUsersOnEvent after resolveNameForDiscord has resolved.
Resolve(p) ==
  /\ p \in pending
  /\ pending' = pending \ {p}
  /\ IF ~specServers[p.host].present
       THEN /\ unhandled' = unhandled + 1
            /\ UNCHANGED <<specServers, warnings>>
       ELSE /\ specServers' =
                 [specServers EXCEPT ![p.host].channels =
                    MutateOne(@, resolveNameForDiscord(p.host, p.ev.channel), p.ev)]
            /\ warnings' = warnings +
                 DuplicateWarnings(specServers[p.host].channels,
                                   resolveNameForDiscord(p.host, p.ev.channel))
            /\ UNCHANGED unhandled
  /\ UNCHANGED <<disconnectedBots, motdListeners, readyCount, delivered, closes,
                 motds, reconnects, refNicks, lastEv, user, lastReady>>
  /\ IrcFrame

\* The 'socket close' listener.
SocketClose(h) ==
  /\ closes[h] < MaxCloses
  /\ closes' = [closes EXCEPT ![h] = @ + 1]
  /\ IF ~disconnectedBots[h]
       THEN /\ specServers' = [specServers EXCEPT ![h] = NoServer]
            /\ disconnectedBots' = [disconnectedBots EXCEPT ![h] = TRUE]
            /\ motdListeners' = [motdListeners EXCEPT ![h] = @ + 1]
            /\ refNicks' = [refNicks EXCEPT ![h] = EmptyRef]
       ELSE UNCHANGED <<specServers, disconnectedBots, motdListeners, refNicks>>
  /\ UNCHANGED <<readyCount, pending, unhandled, delivered, motds, reconnects, lastEv,
                 warnings, user, lastReady>>
  /\ IrcFrame

\* A 'motd' event: every listener installed by a close handler runs.
Motd(h) ==
  /\ motds < MaxMotds
  /\ motds' = motds + 1
  /\ readyCount' = [readyCount EXCEPT ![h] = @ + motdListeners[h]]
  /\ disconnectedBots' =
       [disconnectedBots EXCEPT ![h] = IF motdListeners[h] > 0 THEN FALSE ELSE @]
  /\ reconnects' = [reconnects EXCEPT ![h] = IF disconnectedBots[h] THEN @ + 1 ELSE @]
  /\ lastReady' = IF motdListeners[h] > 0
                     THEN [record |-> ReadyRecord(h, user[h]), user |-> user[h]]
                     ELSE lastReady
  /\ UNCHANGED <<specServers, motdListeners, pending, unhandled, delivered, closes,
                 refNicks, lastEv, warnings, user>>
  /\ IrcFrame

\* The connection object changes its user: the server renames the bridge (a
\* nick collision while registering, a forced rename) or sets a user mode.
UserChanged(h, u) ==
  /\ u # user[h]
  /\ user' = [user EXCEPT ![h] = u]
  /\ UNCHANGED <<specServers, disconnectedBots, motdListeners, readyCount, pending,
                 unhandled, delivered, closes, motds, reconnects, refNicks, lastEv,
                 warnings, lastReady>>
  /\ IrcFrame

\* =================================================== persistence (sqlite + retry)
MaxWrites == 3
MaxLiveWrites == 2
MaxSweeps == 2
MaxBusy == 3

Paths == {"p1", "p2"}
HostOrder == <<"n1", "n2">>

\* global.sqliteBuffer[path] before initRetryBuffer has made it; created counts
\* the buffer objects (each with its own setInterval) made for the path.
NoBuffer == [exists |-> FALSE, entries |-> <<>>, timer |-> FALSE, created |-> 0]

Range(q) == {q[i] : i \in 1..Len(q)}

\* An initRetryBuffer that makes a new buffer and a new timer on every call.
initRetryBufferEveryCall(buf) ==
  [exists |-> TRUE, entries |-> <<>>, timer |-> TRUE, created |-> buf.created + 1]

\* initRetryBuffer: the buffer of a path, created with a running interval timer
\* when the path has none.
initRetryBuffer(buf) ==
  IF ~buf.exists
    THEN [exists |-> TRUE, entries |-> <<>>, timer |-> TRUE, created |-> buf.created + 1]
    ELSE buf

\* logDataToSqlite, SQLITE_BUSY branch: buffer.entries.push(entry).
BufferPush(buf, r) ==
  [initRetryBuffer(buf) EXCEPT !.entries = Append(@, r)]

\* A sweep that copies the entries and forgets to clear the buffer.
TakeBatchKeepsEntries(buf) == buf

\* processSqliteBuffer: entriesToProcess = [...buffer.entries]; buffer.entries = [].
TakeBatch(buf) == [buf EXCEPT !.entries = <<>>]

\* A sweep that does not push the entries that are still busy back.
RebufferDropsFailed(buf, failed) == buf

\* A sweep that puts the entries that are still busy at the head of the buffer.
RebufferAtHead(buf, failed) == [buf EXCEPT !.entries = failed \o @]

\* processSqliteBuffer: buffer.entries.push(...failedEntries).
Rebuffer(buf, failed) == [buf EXCEPT !.entries = @ \o failed]

\* SIGINT handler: clearInterval(bufferData.retryIntervalId) for every buffer.
ClearIntervals(bufs) == [p \in DOMAIN bufs |-> [bufs[p] EXCEPT !.timer = FALSE]]

PerInit ==
  /\ writes = <<>>
  /\ dbFile = [p \in Paths |-> FALSE]
  /\ store = [p \in Paths |-> <<>>]
  /\ jsonl = [p \in Paths |-> <<>>]
  /\ sqliteBuffer = [p \in Paths |-> NoBuffer]
  /\ sweeps = {}
  /\ logs = {}
  /\ rejections = 0
  /\ phase = "running"
  /\ quitIdx = 0
  /\ exitPublished = 0
  /\ quitSent = <<>>
  /\ quitLanded = FALSE
  /\ closeAcks = <<>>
  /\ busyLeft = MaxBusy
  /\ busyOrder = [p \in Paths |-> <<>>]
  /\ sweepsFired = [p \in Paths |-> 0]
  /\ sweepTook = [p \in Paths |-> 0]
  /\ sweepRejects = [p \in Paths |-> 0]

Alive == phase # "exited"

\* logDataToFile(fileName, data, opts): fs.stat is issued and the call returns.
WriteCall(p, isEvent) ==
  /\ Alive
  /\ Len(writes) < MaxWrites
  /\ writes' = Append(writes, [path |-> p, isEvent |-> isEvent, pc |-> "stat",
                               first |-> NoVal])
  /\ UNCHANGED <<dbFile, store, jsonl, sqliteBuffer, sweeps, logs, rejections, phase,
                 quitIdx, exitPublished, busyLeft, busyOrder, sweepsFired, sweepTook,
                 sweepRejects>>
  /\ UNCHANGED <<quitSent, closeAcks, quitLanded>>
  /\ PerFrame

SqlOutcomes == {"mkdirFail", "createFail", "openFail", "ok", "busy", "insertFail"}

\* The fs.stat callback of a non-event write up to the result of its insert:
\* mkdir, logDataToSqlite (stat, CREATE TABLE when absent, open, INSERT).
SqlAttempt(r, o) ==
  LET p == writes[r].path IN
  /\ Alive
  /\ r \in DOMAIN writes
  /\ writes[r].pc = "stat" /\ ~writes[r].isEvent
  /\ o = "createFail" => ~dbFile[p]
  /\ o = "busy" => busyLeft > 0
  /\ writes' = [writes EXCEPT ![r].first = o, ![r].pc =
                  CASE o = "mkdirFail" -> "mkdirFailed"
                    [] o = "createFail" -> "fallback"
                    [] o = "openFail" -> "openFailed"
                    [] o = "ok" -> "stored"
                    [] o = "busy" -> "busy"
                    [] o = "insertFail" -> "fallback"]
  /\ dbFile' = [dbFile EXCEPT ![p] = IF o \in {"mkdirFail", "createFail"} THEN @ ELSE TRUE]
  /\ store' = [store EXCEPT ![p] = IF o = "ok" THEN Append(@, r) ELSE @]
  /\ sqliteBuffer' = [sqliteBuffer EXCEPT ![p] = IF o = "busy" THEN BufferPush(@, r) ELSE @]
  /\ busyOrder' = [busyOrder EXCEPT ![p] = IF o = "busy" THEN Append(@, r) ELSE @]
  /\ busyLeft' = IF o = "busy" THEN busyLeft - 1 ELSE busyLeft
  /\ logs' = logs \cup
       (CASE o = "mkdirFail" -> {[kind |-> "logDataToFile failed", rec |-> r]}
          [] o = "openFail" -> {[kind |-> "DB open failed", rec |-> r]}
          [] o \in {"createFail", "insertFail"} ->
               {[kind |-> "logDataToSqlite FAILED", rec |-> r]}
          [] OTHER -> {})
  /\ UNCHANGED <<jsonl, sweeps, rejections, phase, quitIdx, exitPublished,
                 sweepsFired, sweepTook, sweepRejects>>
  /\ UNCHANGED <<quitSent, closeAcks, quitLanded>>
  /\ PerFrame

\* The .catch handler of logDataToFile: open(chanFilePath, 'a'), write one JSON line.
\* Its promise is neither awaited nor given a handler.
Fallback(r, ok) ==
  LET p == writes[r].path IN
  /\ Alive
  /\ r \in DOMAIN writes
  /\ writes[r].pc = "fallback"
  /\ writes' = [writes EXCEPT ![r].pc = IF ok THEN "filed" ELSE "fallbackFailed"]
  /\ jsonl' = [jsonl EXCEPT ![p] = IF ok THEN Append(@, r) ELSE @]
  /\ rejections' = IF ok THEN rejections ELSE rejections + 1
  /\ UNCHANGED <<dbFile, store, sqliteBuffer, sweeps, logs, phase, quitIdx,
                 exitPublished, busyLeft, busyOrder, sweepsFired, sweepTook, sweepRejects>>
  /\ UNCHANGED <<quitSent, closeAcks, quitLanded>>
  /\ PerFrame

\* The fs.stat callback of an event write (isEvent): the line is appended inside
\* the try block, a failure is caught and logged.
EventAppend(r, ok) ==
  LET p == writes[r].path IN
  /\ Alive
  /\ r \in DOMAIN writes
  /\ writes[r].pc = "stat" /\ writes[r].isEvent
  /\ writes' = [writes EXCEPT ![r].pc = IF ok THEN "filed" ELSE "eventFailed"]
  /\ jsonl' = [jsonl EXCEPT ![p] = IF ok THEN Append(@, r) ELSE @]
  /\ logs' = IF ok THEN logs ELSE logs \cup {[kind |-> "logDataToFile failed", rec |-> r]}
  /\ UNCHANGED <<dbFile, store, sqliteBuffer, sweeps, rejections, phase, quitIdx,
                 exitPublished, busyLeft, busyOrder, sweepsFired, sweepTook, sweepRejects>>
  /\ UNCHANGED <<quitSent, closeAcks, quitLanded>>
  /\ PerFrame

\* The interval timer of a path fires: processSqliteBuffer up to its first await.
\* With opened = FALSE the Database constructor throws and the batch is pushed back.
SweepFire(p, opened) ==
  /\ Alive
  /\ sqliteBuffer[p].exists /\ sqliteBuffer[p].timer
  /\ sqliteBuffer[p].entries # <<>>
  /\ IF opened
       THEN /\ sweeps' = sweeps \cup
                 {[path |-> p, todo |-> sqliteBuffer[p].entries, failed |-> <<>>]}
            /\ sqliteBuffer' = [sqliteBuffer EXCEPT ![p] = TakeBatch(@)]
            /\ sweepsFired' = [sweepsFired EXCEPT ![p] = @ + 1]
            /\ sweepTook' = [sweepTook EXCEPT ![p] = @ + Len(sqliteBuffer[p].entries)]
            /\ UNCHANGED <<logs, busyLeft>>
       ELSE /\ busyLeft > 0
            /\ busyLeft' = busyLeft - 1
            /\ sqliteBuffer' = [sqliteBuffer EXCEPT ![p] =
                                  Rebuffer(TakeBatch(@), sqliteBuffer[p].entries)]
            /\ logs' = logs \cup {[kind |-> "Failed to process buffer", rec |-> 0]}
            /\ UNCHANGED <<sweeps, sweepsFired, sweepTook>>
  /\ UNCHANGED <<writes, dbFile, store, jsonl, rejections, phase, quitIdx,
                 exitPublished, busyOrder, sweepRejects>>
  /\ UNCHANGED <<quitSent, closeAcks, quitLanded>>
  /\ PerFrame

SweepOutcomes == {"ok", "busy", "error"}

\* A sweep that keeps every record whose insert failed, whatever the error.
FailedAfterAnyError(failed, r, o) == IF o # "ok" THEN Append(failed, r) ELSE failed

\* failedEntries after the insert of record r came back with outcome o: only a
\* busy record is kept for re-buffering.
FailedAfter(failed, r, o) == IF o = "busy" THEN Append(failed, r) ELSE failed

\* The callback of one buffered INSERT of a sweep; after the last one the failed
\* entries are pushed back and the handle is closed.
SweepInsert(s, o) ==
  LET p == s.path
      r == Head(s.todo)
      failed == FailedAfter(s.failed, r, o)
      rest == Tail(s.todo)
  IN
  /\ Alive
  /\ s \in sweeps
  /\ o = "busy" => busyLeft > 0
  /\ busyLeft' = IF o = "busy" THEN busyLeft - 1 ELSE busyLeft
  /\ store' = [store EXCEPT ![p] = IF o = "ok" THEN Append(@, r) ELSE @]
  /\ logs' = IF o = "error"
               THEN logs \cup {[kind |-> "Error reinserting buffered entry", rec |-> r]}
               ELSE logs
  /\ sweepRejects' = [sweepRejects EXCEPT ![p] = IF o = "ok" THEN @ ELSE @ + 1]
  /\ IF rest = <<>>
       THEN /\ sweeps' = sweeps \ {s}
            /\ sqliteBuffer' = [sqliteBuffer EXCEPT ![p] = Rebuffer(@, failed)]
       ELSE /\ sweeps' = (sweeps \ {s}) \cup {[s EXCEPT !.todo = rest, !.failed = failed]}
            /\ UNCHANGED sqliteBuffer
  /\ UNCHANGED <<writes, dbFile, jsonl, rejections, phase, quitIdx, exitPublished,
                 busyOrder, sweepsFired, sweepTook>>
  /\ UNCHANGED <<quitSent, closeAcks, quitLanded>>
  /\ PerFrame

\* SIGINT handler up to its first await: the heartbeat and the retry intervals
\* are cleared, a 'close' listener is put on the first bot and it is told to quit.
Sigint ==
  /\ phase = "running"
  /\ phase' = "quitting"
  /\ quitIdx' = 1
  /\ quitSent' = Append(quitSent, HostOrder[1])
  /\ quitLanded' = ~disconnectedBots[HostOrder[1]]
  /\ sqliteBuffer' = ClearIntervals(sqliteBuffer)
  /\ UNCHANGED <<writes, dbFile, store, jsonl, sweeps, logs, rejections, exitPublished,
                 closeAcks, busyLeft, busyOrder, sweepsFired, sweepTook, sweepRejects>>
  /\ PerFrame

\* Not the handler: irc:exit goes out at the first 'close', whatever is left to quit.
BotClosedExitsAtFirstClose ==
  /\ phase = "quitting"
  /\ closeAcks' = Append(closeAcks, HostOrder[quitIdx])
  /\ phase' = "exited"
  /\ exitPublished' = exitPublished + 1
  /\ UNCHANGED <<writes, dbFile, store, jsonl, sqliteBuffer, sweeps, logs, rejections,
                 quitIdx, quitSent, busyLeft, busyOrder, sweepsFired, sweepTook,
                 sweepRejects, quitLanded>>
  /\ PerFrame

\* The 'close' event of the bot being awaited resumes the handler: the next bot
\* gets its listener and is told to quit, or, after the last bot, irc:exit is
\* published and the process exits.
Resumed ==
  /\ phase = "quitting"
  /\ closeAcks' = Append(closeAcks, HostOrder[quitIdx])
  /\ IF quitIdx < Len(HostOrder)
       THEN /\ quitIdx' = quitIdx + 1
            /\ quitSent' = Append(quitSent, HostOrder[quitIdx + 1])
            /\ quitLanded' = ~disconnectedBots[HostOrder[quitIdx + 1]]
            /\ UNCHANGED <<phase, exitPublished>>
       ELSE /\ phase' = "exited"
            /\ exitPublished' = exitPublished + 1
            /\ UNCHANGED <<quitIdx, quitSent, quitLanded>>
  /\ UNCHANGED <<writes, dbFile, store, jsonl, sqliteBuffer, sweeps, logs, rejections,
                 busyLeft, busyOrder, sweepsFired, sweepTook, sweepRejects>>
  /\ PerFrame

\* The bot being awaited closes because its quit went out: its socket was open.
BotClosed == quitLanded /\ Resumed

\* The bot being awaited had no open socket when it was told to quit; it emits
\* 'close' only if the connection object gives up reconnecting.
GaveUpReconnecting ==
  /\ phase = "quitting"
  /\ ~quitLanded
  /\ disconnectedBots[HostOrder[quitIdx]]
  /\ Resumed

\* ------------------------------------------------------ 'message' listener
\* Values of data.target: a string, the empty string, or no target at all.
Absent == "<undefined>"

MsgTargets == {Absent, NoVal, "#a", "#A", OwnNick}

MsgTypes == {"privmsg", "notice", "action"}

MsgSenders == {"alice"}

HandlerKeys == {"#a", OwnNick}

\* String.prototype.toLowerCase on the targets above.
toLowerCase(t) == IF t = "#A" THEN "#a" ELSE t

\* JavaScript truthiness of data.target.
Truthy(t) == t \notin {Absent, NoVal}

Messages ==
  [type : MsgTypes, target : MsgTargets, from_server : BOOLEAN, nick : MsgSenders]

NoMsg ==
  [host |-> NoVal, type |-> NoVal, target |-> Absent, from_server |-> FALSE,
   nick |-> NoVal, reg |-> {}]

NoOut == [kind |-> NoVal, pubs |-> <<>>, logCall |-> <<>>, error |-> "none"]

\* The bus channel a registered handler publishes to.
HandlerChannel(h, key) == <<h, key>>

NoticeChannel == <<"PREFIX">>

\* Not the listener: a notice is relabelled whoever sent it.
ReclassifyAlsoFromServer(m, reg) ==
  IF m.type = "notice" /\ Truthy(m.target) /\ toLowerCase(m.target) \in reg
    THEN [m EXCEPT !.type = "privmsg"]
    ELSE m

\* Not the listener: the event keeps the kind it came with.
ReclassifyNever(m, reg) == m

\* A notice sent to a target that has a handler is relabelled privmsg.
Reclassify(m, reg) ==
  IF /\ m.type = "notice"
     /\ Truthy(m.target)
     /\ ~m.from_server
     /\ toLowerCase(m.target) \in reg
    THEN [m EXCEPT !.type = "privmsg"]
    ELSE m

isNotice(d) == d.target = OwnNick \/ (d.type = "notice" /\ d.from_server)

fName(d) == IF isNotice(d) /\ d.target = OwnNick THEN d.nick ELSE d.target

\* The payload published and persisted: the event with its network.
Payload(h, d) ==
  [network |-> h, type |-> d.type, target |-> d.target, from_server |-> d.from_server,
   nick |-> d.nick]

Pub(chan, type, h, d) == [channel |-> chan, type |-> type, data |-> Payload(h, d)]

LookupKey(t) == toLowerCase(t)

\* The listener from the log call on, for the relabelled event d: path.join
\* throws on a file name that is not a string; a self-notice is published on the
\* notice channel and the listener returns; msgHandlers[host]?.[...] evaluates
\* data.target.toLowerCase() only when the host has an entry, and that call
\* throws when there is no target.
Dispatch(h, d, reg, toFile) ==
  LET logs1 == IF toFile THEN <<[file |-> fName(d), data |-> Payload(h, d)]>> ELSE <<>>
  IN  IF toFile /\ fName(d) = Absent
        THEN [kind |-> d.type, pubs |-> <<>>, logCall |-> <<>>, error |-> "TypeError"]
      ELSE IF isNotice(d)
        THEN [kind |-> d.type, pubs |-> <<Pub(NoticeChannel, "irc:notice", h, d)>>,
              logCall |-> logs1, error |-> "none"]
      ELSE IF reg = {}
        THEN [kind |-> d.type, pubs |-> <<>>, logCall |-> logs1, error |-> "none"]
      ELSE IF d.target = Absent
        THEN [kind |-> d.type, pubs |-> <<>>, logCall |-> logs1, error |-> "TypeError"]
      ELSE IF LookupKey(d.target) \notin reg
        THEN [kind |-> d.type, pubs |-> <<>>, logCall |-> logs1, error |-> "none"]
      ELSE [kind |-> d.type,
            pubs |-> <<Pub(HandlerChannel(h, LookupKey(d.target)), "irc:message", h, d)>>,
            logCall |-> logs1, error |-> "none"]

MessageHandler(h, m, reg, toFile) == Dispatch(h, Reclassify(m, reg), reg, toFile)

MsgInit ==
  /\ msgHandlers = [h \in Hosts |-> {}]
  /\ channelsToFile = TRUE
  /\ lastMsg = NoMsg
  /\ lastOut = NoOut

\* A handler is registered for a target of a network (irc/ipcMessage.js, which
\* is not part of the sources; keys are lower-cased channel or nick names).
IpcRegister(h, key) ==
  /\ key \notin msgHandlers[h]
  /\ msgHandlers' = [msgHandlers EXCEPT ![h] = @ \cup {key}]
  /\ UNCHANGED <<channelsToFile, lastMsg, lastOut>>
  /\ MsgFrame

\* The 'message' listener of a bot run on one event.
MessageEvent(h, m) ==
  /\ lastMsg' = [host |-> h, type |-> m.type, target |-> m.target,
                 from_server |-> m.from_server, nick |-> m.nick, reg |-> msgHandlers[h]]
  /\ lastOut' = MessageHandler(h, m, msgHandlers[h], channelsToFile)
  /\ UNCHANGED <<msgHandlers, channelsToFile>>
  /\ MsgFrame

\* ------------------------------------------------------------------ startup
MaxNetworks == 2

MaxCertParts == 4

\* A certificate file as the boundary regex sees it: its boundary markers in
\* order, and "text" for anything else. A marker is at offset 0 when it is the
\* first part.
CertParts == {"text", "BK", "EK", "BC", "EC"}

IsBegin(part) == part \in {"BK", "BC"}

IsEnd(part) == part \in {"EK", "EC"}

\* type.toLowerCase().replace(/\s+/g, '_') of a marker.
typeXform(part) == IF part \in {"BK", "EK"} THEN "private_key" ELSE "certificate"

\* A value of elems[typeXform]: "none" is the initial {}, "open" is { start },
\* "done" is the substring cut at the END marker (never empty).
ElemStates == {"none", "open", "done"}

NoElems == [t \in {"private_key", "certificate"} |-> "none"]

\* !x of such a value: objects and non-empty strings are truthy.
Falsy(x) == x \notin ElemStates

\* Not the parser: a private key may begin anywhere in the file.
OnBeginAnyOffset(part, index, elems) ==
  IF elems[typeXform(part)] = "done"
    THEN [error |-> "TypeError", elems |-> elems]
    ELSE [error |-> "none", elems |-> [elems EXCEPT ![typeXform(part)] = "open"]]

\* A BEGIN marker: the private key must be at offset 0; start is set on the
\* element, which throws in strict mode when the element is already a string.
OnBegin(part, index, elems) ==
  IF part = "BK" /\ index # 0
    THEN [error |-> "pk start", elems |-> elems]
  ELSE IF elems[typeXform(part)] = "done"
    THEN [error |-> "TypeError", elems |-> elems]
  ELSE [error |-> "none", elems |-> [elems EXCEPT ![typeXform(part)] = "open"]]

\* An END marker: the element needs a start, and becomes the block's text.
OnEnd(part, elems) ==
  IF elems[typeXform(part)] # "open"
    THEN [error |-> "bad start!", elems |-> elems]
    ELSE [error |-> "none", elems |-> [elems EXCEPT ![typeXform(part)] = "done"]]

RECURSIVE ParseFrom(_, _, _)
\* The loop over certFile.matchAll(boundaryRe), from part k on.
ParseFrom(file, k, elems) ==
  IF k > Len(file)
    THEN [error |-> "none", elems |-> elems]
  ELSE IF file[k] = "text"
    THEN ParseFrom(file, k + 1, elems)
  ELSE LET r == IF IsBegin(file[k]) THEN OnBegin(file[k], k - 1, elems)
                                    ELSE OnEnd(file[k], elems)
       IN  IF r.error # "none" THEN r ELSE ParseFrom(file, k + 1, r.elems)

\* The certificate part of connectIRCClient: the error it throws, or "none".
ParseCert(file) ==
  LET r == ParseFrom(file, 1, NoElems)
  IN  IF r.error # "none" THEN r.error
      ELSE IF \E t \in DOMAIN r.elems : Falsy(r.elems[t]) THEN "bad cert parse"
      ELSE "none"

NoCert == [fromFile |-> FALSE, file |-> <<>>]

CertFrom(file) == [fromFile |-> TRUE, file |-> file]

GoodCert == CertFrom(<<"BK", "text", "EK", "text", "BC", "text", "EC">>)

LateKeyCert == CertFrom(<<"BC", "text", "EC", "text", "BK", "text", "EK">>)

CertFiles == UNION {[1..n -> CertParts] : n \in 0..MaxCertParts}

Entry(h, port, cert) == [host |-> h, port |-> port, cert |-> cert]

\* Entries of a configuration: a host name (possibly the empty key), a port or
\* none, no certificate or one of two files.
BootEntries ==
  {Entry(h, port, cert) : h \in Hosts \cup {NoVal}, port \in BOOLEAN,
                          cert \in {NoCert, GoodCert, LateKeyCert}}

\* Keys of an object are distinct.
DistinctHosts(c) == \A i, j \in 1..Len(c) : i # j => c[i].host # c[j].host

BootConfigs ==
  {c \in UNION {[1..n -> BootEntries] : n \in 1..MaxNetworks} : DistinctHosts(c)}

CertConfigs == {<<Entry("n1", TRUE, CertFrom(f))>> : f \in CertFiles}

DefaultConfig == <<Entry("n1", TRUE, NoCert), Entry("n2", TRUE, NoCert)>>

Logged(ev, h) == [ev |-> ev, host |-> h]

\* Position of an entry in bootLog, 0 when it is not there.
Pos(ev, h) ==
  IF \E k \in 1..Len(bootLog) : bootLog[k] = Logged(ev, h)
    THEN CHOOSE k \in 1..Len(bootLog) :
           /\ bootLog[k] = Logged(ev, h)
           /\ \A j \in 1..(k - 1) : bootLog[j] # Logged(ev, h)
    ELSE 0

RECURSIVE ReadyEntries(_)
ReadyEntries(hs) ==
  IF hs = <<>> THEN <<>>
  ELSE <<Logged("irc:ready", Head(hs))>> \o ReadyEntries(Tail(hs))

\* Events of the irc-framework client during a connect, in the order it emits
\* them.
ClientEvents == <<"socket connected", "registered">>

\* Not the program: the promise is resolved as soon as the socket is open.
ResolveOnSocket == "socket connected"

\* The client event regPromise is resolved on.
ResolvingEvent == "registered"

\* The state after main ran through with two plain networks.
BootDone ==
  /\ registered = DefaultConfig
  /\ bootIdx = Len(DefaultConfig) + 1
  /\ bootPc = "ready"
  /\ bootError = "none"
  /\ bots = Hosts
  /\ readyData = HostOrder
  /\ bootLog = <<>>

\* main before its loop, with one of the given configurations.
BootStart(configs) ==
  /\ registered \in configs
  /\ bootIdx = 1
  /\ bootPc = "loop"
  /\ bootError = "none"
  /\ bots = {}
  /\ readyData = <<>>
  /\ bootLog = <<>>

\* The checks main makes on entry i when the loop reaches it.
ConfigError(c, i, sessions) ==
  IF c[i].host = NoVal \/ ~c[i].port THEN "bad server spec"
  ELSE IF c[i].host \in sessions THEN "duplicate server spec"
  ELSE "none"

\* One iteration of main's loop up to the await inside connectIRCClient: the
\* entry is checked, the certificate file parsed, irc:connecting published and
\* the connect started; any throw rejects main.
LoopStep ==
  /\ bootPc = "loop"
  /\ LET e == registered[bootIdx]
         cfgErr == ConfigError(registered, bootIdx, bots)
         certErr == IF e.cert.fromFile THEN ParseCert(e.cert.file) ELSE "none"
     IN  IF cfgErr # "none"
           THEN /\ bootPc' = "failed"
                /\ bootError' = cfgErr
                /\ UNCHANGED bootLog
         ELSE IF certErr # "none"
           THEN /\ bootPc' = "failed"
                /\ bootError' = certErr
                /\ UNCHANGED bootLog
         ELSE /\ bootPc' = "await"
              /\ bootLog' = bootLog \o <<Logged("irc:connecting", e.host),
                                          Logged("connect", e.host)>>
              /\ UNCHANGED bootError
  /\ UNCHANGED <<registered, bootIdx, bots, readyData>>
  /\ BootFrame

\* The client being connected emits its k-th event. The resolving event resumes
\* main: the session is stored, the listeners installed, readyData extended, and
\* after the last entry irc:ready is published.
ClientEvent(k) ==
  /\ bootPc = "await"
  /\ LET h == registered[bootIdx].host
         ev == ClientEvents[k]
     IN  /\ Pos(ev, h) = 0
         /\ \A j \in 1..(k - 1) : Pos(ClientEvents[j], h) # 0
         /\ IF ev = ResolvingEvent
              THEN /\ bots' = bots \cup {h}
                   /\ readyData' = Append(readyData, h)
                   /\ bootIdx' = bootIdx + 1
                   /\ IF bootIdx = Len(registered)
                        THEN /\ bootPc' = "ready"
                             /\ bootLog' = bootLog \o <<Logged(ev, h), Logged("resolved", h)>>
                                                    \o ReadyEntries(Append(readyData, h))
                        ELSE /\ bootPc' = "loop"
                             /\ bootLog' = bootLog \o <<Logged(ev, h), Logged("resolved", h)>>
              ELSE /\ bootLog' = Append(bootLog, Logged(ev, h))
                   /\ UNCHANGED <<bots, readyData, bootIdx, bootPc>>
  /\ UNCHANGED <<registered, bootError>>
  /\ BootFrame

\* --------------------------------------------------------- 'pong' listener
MaxPongParts == 3

\* A pong message as a string of pieces: the marker, another word, the
\* separator, a digit, a letter.
PongPieces == {"drc", "irc", "-", "7", "x"}

PongMessages == UNION {[1..n -> PongPieces] : n \in 0..MaxPongParts}

\* The clock readings Number(new Date()) may give.
Clock == {1000, 2000}

RECURSIVE split(_)
\* String.prototype.split('-'): the pieces between separators, at least one
\* element, empty elements kept.
split(m) ==
  IF m = <<>> THEN <<(<<>>)>>
  ELSE LET rest == split(Tail(m)) IN
         IF Head(m) = "-" THEN <<(<<>>)>> \o rest
         ELSE <<(<<Head(m)>> \o rest[1])>> \o Tail(rest)

NaN == -1

RECURSIVE Digits(_, _)
Digits(e, acc) ==
  IF e = <<>> THEN acc
  ELSE IF Head(e) # "7" THEN NaN
  ELSE Digits(Tail(e), acc * 10 + 7)

\* Number(string): 0 for the empty string, the value of a string of digits,
\* NaN for anything else.
Number(e) == Digits(e, 0)

\* splitElems[0].indexOf('drc') === 0
StartsWithMarker(e) == e # <<>> /\ Head(e) = "drc"

NoLatency == [set |-> FALSE, ms |-> 0]

NoPong == [host |-> NoVal, message |-> <<>>, absent |-> FALSE, now |-> 0, before |-> NoLatency]

NoPongOut == [pubs |-> <<>>, error |-> "none"]

\* stats.latency[host] after the listener ran on message m.
PongLatency(m, now, old) ==
  LET splitElems == split(m) IN
    IF Len(splitElems) > 1 /\ Number(splitElems[2]) # NaN
      THEN [set |-> TRUE, ms |-> now - Number(splitElems[2])]
      ELSE old

\* The irc:pong records the listener publishes for message m.
PongPubs(h, m, now) ==
  LET splitElems == split(m) IN
    IF /\ Len(splitElems) > 1
       /\ Number(splitElems[2]) # NaN
       /\ StartsWithMarker(splitElems[1])
      THEN <<[type |-> "irc:pong", network |-> h,
              latencyToIRC |-> now - Number(splitElems[2])]>>
      ELSE <<>>

PongInit ==
  /\ latency = [h \in Hosts |-> NoLatency]
  /\ lastPong = NoPong
  /\ pongOut = NoPongOut

\* The 'pong' listener of a bot run on one event; data.message.split throws
\* when the event carries no message.
Pong(h, m, absent, now) ==
  /\ lastPong' = [host |-> h, message |-> m, absent |-> absent, now |-> now,
                  before |-> latency[h]]
  /\ IF absent
       THEN /\ pongOut' = [pubs |-> <<>>, error |-> "TypeError"]
            /\ UNCHANGED latency
       ELSE /\ latency' = [latency EXCEPT ![h] = PongLatency(m, now, @)]
            /\ pongOut' = [pubs |-> PongPubs(h, m, now), error |-> "none"]
  /\ PongFrame

\* ------------------------------------------------------- specifications
\* ------------------------------------------------------------- hot reload
MaxDeploys == 2

MaxReloads == 2

MaxIpc == 2

\* A require that finds the module in require.cache and returns the old one.
RebindFromCache(h, v) == h

\* Both cache entries are deleted and both modules required again: each
\* reference is bound to the version now on disk.
Rebind(h, v) == [ipcMessageHandler |-> v, genEvHandler |-> v]

ReloadInit ==
  /\ diskVersion = 0
  /\ handlers = [ipcMessageHandler |-> 0, genEvHandler |-> 0]
  /\ reloadResponses = 0
  /\ reloads = 0
  /\ loadedAt = 0
  /\ lastIpc = [n |-> 0, handler |-> 0]

\* The two handler files are replaced on disk.
Deploy ==
  /\ diskVersion < MaxDeploys
  /\ diskVersion' = diskVersion + 1
  /\ UNCHANGED <<handlers, reloadResponses, reloads, loadedAt, lastIpc>>
  /\ ReloadFrame

\* The c2Listener 'pmessage' listener on <prefix>:__c2::irc:reload.
Reload ==
  /\ reloads < MaxReloads
  /\ reloads' = reloads + 1
  /\ handlers' = Rebind(handlers, diskVersion)
  /\ loadedAt' = diskVersion
  /\ reloadResponses' = reloadResponses + 1
  /\ UNCHANGED <<diskVersion, lastIpc>>
  /\ ReloadFrame

\* The redisClient 'message' listener: the message goes to whatever
\* ipcMessageHandler is bound to now.
IpcMessage ==
  /\ lastIpc.n < MaxIpc
  /\ lastIpc' = [n |-> lastIpc.n + 1, handler |-> handlers.ipcMessageHandler]
  /\ UNCHANGED <<diskVersion, handlers, reloadResponses, reloads, loadedAt>>
  /\ ReloadFrame

\* ------------------------------------------- log streams (LogStream, StreamManager)
MaxProcs == 2

MaxStarts == 3

MaxRestarts == 2

ProcIds == 1..MaxProcs

NewStream == [active |-> FALSE, heartbeat |-> FALSE, process |-> 0]

StreamInit ==
  /\ ls = NewStream
  /\ procs = [i \in ProcIds |-> "none"]
  /\ streams = FALSE
  /\ created = FALSE
  /\ starts = {}
  /\ startCount = 0
  /\ restartTimers = 0
  /\ restartWaits = 0
  /\ restartCount = 0
  /\ expired = FALSE
  /\ stopRequested = FALSE
  /\ afterStop = [activated |-> FALSE, spawned |-> FALSE]
  /\ streamRejects = 0

\* LogStream.stop on a single stream, as its effect on the stream, on the log
\* processes and on the manager's map (the 'stopped' listener deletes the
\* entry). An inactive stream returns at once.
stopStreamObject(l) ==
  IF l.active THEN [active |-> FALSE, heartbeat |-> FALSE, process |-> 0] ELSE l

stopProcesses(l, ps) ==
  IF l.active /\ l.process # 0 /\ ps[l.process] = "running"
    THEN [ps EXCEPT ![l.process] = "killed"]
    ELSE ps

stopEntry(l, reg) == IF l.active THEN FALSE ELSE reg

\* LogStream.start up to its first await: an active stream returns at once;
\* otherwise active is set, the heartbeat timer started and getContainerId
\* awaited.
startStreamObject(l) ==
  IF l.active THEN l ELSE [l EXCEPT !.active = TRUE, !.heartbeat = TRUE]

startCalls(l, origin) ==
  IF l.active THEN starts
  ELSE starts \cup {[id |-> startCount + 1, origin |-> origin, pc |-> "lookup"]}

\* StreamManager.createStream for a streamId not in the map: the stream is
\* stored, its listeners are set and start() is called and awaited.
createStream ==
  /\ ~created
  /\ created' = TRUE
  /\ streams' = TRUE
  /\ ls' = startStreamObject(ls)
  /\ starts' = startCalls(ls, "create")
  /\ startCount' = startCount + 1
  /\ UNCHANGED <<procs, restartTimers, restartWaits, restartCount, expired,
                 stopRequested, afterStop, streamRejects>>
  /\ StreamFrame

\* dockerUtils.getContainerId settles for a suspended start(). On a failure
\* start() clears active and the heartbeat and throws: createStream deletes the
\* map entry, a restart() rejects with nobody to catch it.
LookupDone(s, ok) ==
  /\ s \in starts /\ s.pc = "lookup"
  /\ IF ok
       THEN /\ starts' = (starts \ {s}) \cup {[s EXCEPT !.pc = "logs"]}
            /\ UNCHANGED <<ls, streams, streamRejects>>
       ELSE /\ starts' = starts \ {s}
            /\ ls' = [ls EXCEPT !.active = FALSE, !.heartbeat = FALSE]
            /\ streams' = IF s.origin = "create" THEN FALSE ELSE streams
            /\ streamRejects' = IF s.origin = "create" THEN streamRejects
                                                        ELSE streamRejects + 1
  /\ UNCHANGED <<procs, created, startCount, restartTimers, restartWaits, restartCount,
                 expired, stopRequested, afterStop>>
  /\ StreamFrame

\* dockerUtils.getInitialLogs settles (either way): the log process is spawned
\* and kept in this.process, 'ready' is emitted and start() returns.
LogsDone(s) ==
  /\ s \in starts /\ s.pc = "logs"
  /\ \E i \in ProcIds :
       /\ procs[i] = "none"
       /\ \A j \in 1..(i - 1) : procs[j] # "none"
       /\ procs' = [procs EXCEPT ![i] = "running"]
       /\ ls' = [ls EXCEPT !.process = i]
  /\ starts' = starts \ {s}
  /\ afterStop' = [afterStop EXCEPT !.spawned = @ \/ stopRequested]
  /\ UNCHANGED <<streams, created, startCount, restartTimers, restartWaits,
                 restartCount, expired, stopRequested, streamRejects>>
  /\ StreamFrame

\* The 'close' handler of a log process that ended by itself or was killed: an
\* active, unexpired stream sets a 5 s timer for restart(); otherwise stop().
ProcessClosed(i) ==
  LET ps == [procs EXCEPT ![i] = "none"] IN
  /\ procs[i] # "none"
  /\ IF ls.active /\ ~expired
       THEN /\ restartCount < MaxRestarts
            /\ restartTimers' = restartTimers + 1
            /\ restartCount' = restartCount + 1
            /\ procs' = ps
            /\ UNCHANGED <<ls, streams>>
       ELSE /\ ls' = stopStreamObject(ls)
            /\ procs' = stopProcesses(ls, ps)
            /\ streams' = stopEntry(ls, streams)
            /\ UNCHANGED <<restartTimers, restartCount>>
  /\ UNCHANGED <<created, starts, startCount, restartWaits, expired, stopRequested,
                 afterStop, streamRejects>>
  /\ StreamFrame

\* The 5 s timer of the 'close' handler fires: restart() unless expired, which
\* calls stop() and then waits 5 s.
RestartTimer ==
  /\ restartTimers > 0
  /\ restartTimers' = restartTimers - 1
  /\ IF ~expired
       THEN /\ ls' = stopStreamObject(ls)
            /\ procs' = stopProcesses(ls, procs)
            /\ streams' = stopEntry(ls, streams)
            /\ restartWaits' = restartWaits + 1
       ELSE UNCHANGED <<ls, procs, streams, restartWaits>>
  /\ UNCHANGED <<created, starts, startCount, restartCount, expired, stopRequested,
                 afterStop, streamRejects>>
  /\ StreamFrame

\* restart() after its wait: start() unless expired.
RestartWait ==
  /\ restartWaits > 0
  /\ restartWaits' = restartWaits - 1
  /\ IF ~expired
       THEN /\ ~ls.active => startCount < MaxStarts
            /\ ls' = startStreamObject(ls)
            /\ starts' = startCalls(ls, "restart")
            /\ startCount' = IF ls.active THEN startCount ELSE startCount + 1
            /\ afterStop' = [afterStop EXCEPT !.activated = @ \/ (stopRequested /\ ~ls.active)]
       ELSE UNCHANGED <<ls, starts, startCount, afterStop>>
  /\ UNCHANGED <<procs, streams, created, restartTimers, restartCount, expired,
                 stopRequested, streamRejects>>
  /\ StreamFrame

\* StreamManager.stopStream(streamId), from a 'stop' control message or a key
\* expiry notification: stop() of the stream the map holds.
stopStream ==
  /\ streams
  /\ ls.active
  /\ ls' = stopStreamObject(ls)
  /\ procs' = stopProcesses(ls, procs)
  /\ streams' = stopEntry(ls, streams)
  /\ stopRequested' = TRUE
  /\ UNCHANGED <<created, starts, startCount, restartTimers, restartWaits, restartCount,
                 expired, afterStop, streamRejects>>
  /\ StreamFrame

\* The heartbeat timer of the stream or the manager's cleanup interval finds
\* the stream expired: stop().
ExpiryStop(byManager) ==
  /\ expired
  /\ IF byManager THEN streams ELSE ls.heartbeat
  /\ ls.active
  /\ ls' = stopStreamObject(ls)
  /\ procs' = stopProcesses(ls, procs)
  /\ streams' = stopEntry(ls, streams)
  /\ UNCHANGED <<created, starts, startCount, restartTimers, restartWaits, restartCount,
                 expired, stopRequested, afterStop, streamRejects>>
  /\ StreamFrame

\* The clock passes expiresAt.
Expire ==
  /\ ~expired
  /\ expired' = TRUE
  /\ UNCHANGED <<ls, procs, streams, created, starts, startCount, restartTimers,
                 restartWaits, restartCount, stopRequested, afterStop, streamRejects>>
  /\ StreamFrame

\* ------------------------------------------ health check of the log manager
MaxChecks == 3

RequestIds == 1..MaxChecks

HealthInit ==
  /\ healthCheckResponse = 0
  /\ logManagerAvailable = FALSE
  /\ checkedLately = FALSE
  /\ checks = [i \in RequestIds |-> "none"]
  /\ healthTimers = {}
  /\ healthReplies = {}

\* checkLogManagerHealth(): with a recent positive result it resolves at once;
\* otherwise a request goes out, the resolver is stored in healthCheckResponse
\* (replacing what was there) and the 5 s timeout is set. The log manager may
\* answer or not.
checkLogManagerHealth(id, answered) ==
  /\ checks[id] = "none"
  /\ \A j \in 1..(id - 1) : checks[j] # "none"
  /\ IF checkedLately /\ logManagerAvailable
       THEN /\ checks' = [checks EXCEPT ![id] = "resolved"]
            /\ UNCHANGED <<healthCheckResponse, healthTimers, healthReplies>>
       ELSE /\ checks' = [checks EXCEPT ![id] = "pending"]
            /\ healthCheckResponse' = id
            /\ healthTimers' = healthTimers \cup {id}
            /\ healthReplies' = IF answered THEN healthReplies \cup {id} ELSE healthReplies
  /\ UNCHANGED <<logManagerAvailable, checkedLately>>
  /\ HealthFrame

\* The subscriber's 'message' listener on the health response channel.
HealthResponse(id) ==
  /\ id \in healthReplies
  /\ healthReplies' = healthReplies \ {id}
  /\ IF id = healthCheckResponse
       THEN /\ logManagerAvailable' = TRUE
            /\ checkedLately' = TRUE
            /\ checks' = [checks EXCEPT ![id] = "resolved"]
            /\ healthCheckResponse' = 0
       ELSE UNCHANGED <<logManagerAvailable, checkedLately, checks, healthCheckResponse>>
  /\ UNCHANGED healthTimers
  /\ HealthFrame

\* The 5 s timeout of a check fires.
HealthTimeout(id) ==
  /\ id \in healthTimers
  /\ healthTimers' = healthTimers \ {id}
  /\ IF healthCheckResponse = id
       THEN /\ logManagerAvailable' = FALSE
            /\ healthCheckResponse' = 0
            /\ checks' = [checks EXCEPT ![id] = "rejected"]
       ELSE UNCHANGED <<logManagerAvailable, healthCheckResponse, checks>>
  /\ UNCHANGED <<checkedLately, healthReplies>>
  /\ HealthFrame

\* A minute passes since the last positive result.
HealthCacheAges ==
  /\ checkedLately
  /\ checkedLately' = FALSE
  /\ UNCHANGED <<healthCheckResponse, logManagerAvailable, checks, healthTimers,
                 healthReplies>>
  /\ HealthFrame

\* ------------------------------------------------------------- RedisSet
MaxSetCalls == 3

SetMembers == {"x", "y"}

RedisInit ==
  /\ redisMembers = {"x"}
  /\ cache = {}
  /\ inited = FALSE
  /\ initPc = "idle"
  /\ initRead = {}
  /\ setCalls = {}
  /\ setCallCount = 0

\* scopedRedisClient (lib/scopedRedisClient.js is not part of the sources) runs
\* each callback on a client of its own: the commands of two calls in flight
\* reach Redis in either order, and their replies come back in either order.
MayOvertake(c, others) == TRUE

\* init(): smembers is sent unless the set is initialized.
SetInit ==
  /\ ~inited /\ initPc = "idle"
  /\ initPc' = "sent"
  /\ UNCHANGED <<redisMembers, cache, inited, initRead, setCalls, setCallCount>>
  /\ RedisFrame

\* Redis answers smembers.
SetInitRead ==
  /\ initPc = "sent"
  /\ initPc' = "read"
  /\ initRead' = redisMembers
  /\ UNCHANGED <<redisMembers, cache, inited, setCalls, setCallCount>>
  /\ RedisFrame

\* init() after its await: the cache is replaced and _init set.
SetInitDone ==
  /\ initPc = "read"
  /\ initPc' = "idle"
  /\ cache' = initRead
  /\ inited' = TRUE
  /\ UNCHANGED <<redisMembers, initRead, setCalls, setCallCount>>
  /\ RedisFrame

\* add(member) / delete(member) up to the await: nothing before init(),
\* otherwise sadd / srem is sent.
SetCall(op, m) ==
  /\ inited
  /\ setCallCount < MaxSetCalls
  /\ setCallCount' = setCallCount + 1
  /\ setCalls' = setCalls \cup
       {[id |-> setCallCount + 1, op |-> op, member |-> m, pc |-> "sent"]}
  /\ UNCHANGED <<redisMembers, cache, inited, initPc, initRead>>
  /\ RedisFrame

\* Redis executes the sadd / srem of a call.
SetApplied(c) ==
  /\ c \in setCalls /\ c.pc = "sent"
  /\ MayOvertake(c, setCalls \ {c})
  /\ redisMembers' = IF c.op = "add" THEN redisMembers \cup {c.member}
                                     ELSE redisMembers \ {c.member}
  /\ setCalls' = (setCalls \ {c}) \cup {[c EXCEPT !.pc = "applied"]}
  /\ UNCHANGED <<cache, inited, initPc, initRead, setCallCount>>
  /\ RedisFrame

\* add / delete after the await: the cache is changed and the call returns.
SetReturned(c) ==
  /\ c \in setCalls /\ c.pc = "applied"
  /\ MayOvertake(c, setCalls \ {c})
  /\ cache' = IF c.op = "add" THEN cache \cup {c.member} ELSE cache \ {c.member}
  /\ setCalls' = setCalls \ {c}
  /\ UNCHANGED <<redisMembers, inited, initPc, initRead, setCallCount>>
  /\ RedisFrame

vars ==
  <<ircVars, perVars, msgVars, bootVars, pongVars, reloadVars, streamVars, healthVars,
    redisVars>>

Init ==
  /\ IrcInit /\ PerInit /\ MsgInit /\ BootDone /\ PongInit /\ ReloadInit /\ StreamInit
  /\ HealthInit /\ RedisInit

\* One RedisSet and its callers.
NextRedisSet ==
  \/ SetInit
  \/ SetInitRead
  \/ SetInitDone
  \/ \E op \in {"add", "delete"} : \E m \in SetMembers : SetCall(op, m)
  \/ \E c \in setCalls : SetApplied(c)
  \/ \E c \in setCalls : SetReturned(c)

SpecRedisSet == Init /\ [][NextRedisSet]_vars

\* Health checks of the HTTP side; every timeout that is set fires, and a
\* response that is on its way arrives.
NextHealth ==
  \/ \E id \in RequestIds : \E answered \in BOOLEAN : checkLogManagerHealth(id, answered)
  \/ \E id \in RequestIds : HealthResponse(id)
  \/ \E id \in RequestIds : HealthTimeout(id)
  \/ HealthCacheAges

SpecHealth ==
  /\ Init
  /\ [][NextHealth]_vars
  /\ WF_vars(\E id \in RequestIds : HealthTimeout(id))
  /\ WF_vars(\E id \in RequestIds : HealthResponse(id))

\* One single-daemon log stream from its request to its end.
NextStreams ==
  \/ createStream
  \/ \E s \in starts : \E ok \in BOOLEAN : LookupDone(s, ok)
  \/ \E s \in starts : LogsDone(s)
  \/ \E i \in ProcIds : ProcessClosed(i)
  \/ RestartTimer
  \/ RestartWait
  \/ stopStream
  \/ \E byManager \in BOOLEAN : ExpiryStop(byManager)
  \/ Expire

SpecStreams == Init /\ [][NextStreams]_vars

\* Pong events of one network.
PongHost == "n1"

NextPong ==
  \/ \E m \in PongMessages : \E now \in Clock : Pong(PongHost, m, FALSE, now)
  \/ \E now \in Clock : Pong(PongHost, <<>>, TRUE, now)

SpecPong == Init /\ [][NextPong]_vars

NextBoot ==
  \/ LoopStep
  \/ \E k \in 1..Len(ClientEvents) : ClientEvent(k)

\* Startup with configurations of one or more networks, sound and faulty.
InitBoot ==
  /\ IrcInit /\ PerInit /\ MsgInit /\ PongInit /\ ReloadInit /\ StreamInit
  /\ HealthInit /\ RedisInit
  /\ BootStart(BootConfigs)

SpecBoot == InitBoot /\ [][NextBoot]_vars

\* Startup of one network with every certificate file of a few parts.
InitCert ==
  /\ IrcInit /\ PerInit /\ MsgInit /\ PongInit /\ ReloadInit /\ StreamInit
  /\ HealthInit /\ RedisInit
  /\ BootStart(CertConfigs)

SpecCert == InitCert /\ [][NextBoot]_vars

\* The 'message' listener with either setting of the channel log.
InitMessages ==
  /\ IrcInit
  /\ PerInit
  /\ BootDone
  /\ PongInit
  /\ ReloadInit
  /\ StreamInit
  /\ HealthInit
  /\ RedisInit
  /\ msgHandlers = [h \in Hosts |-> {}]
  /\ channelsToFile \in BOOLEAN
  /\ lastMsg = NoMsg
  /\ lastOut = NoOut

NextMessages ==
  \/ \E h \in Hosts : \E key \in HandlerKeys : IpcRegister(h, key)
  \/ \E h \in Hosts : \E m \in Messages : MessageEvent(h, m)

SpecMessages == InitMessages /\ [][NextMessages]_vars

\* Channel membership of one network under every kind of protocol event.
MemberHost == "n1"

NextMembers ==
  \/ \E names \in ChannelLists : IpcChannels(MemberHost, names)
  \/ \E ev \in AllEvents : Deliver(MemberHost, ev)
  \/ \E p \in pending : Resolve(p)

SpecMembers == Init /\ [][NextMembers]_vars

\* Disconnect / reconnect cycles of two networks.
SessionEvents == {Ev("join", "#a", "alice", NoVal, NoVal)}

NextSession ==
  \/ \E h \in Hosts : IpcChannels(h, <<"a", "b">>)
  \/ \E h \in Hosts : \E ev \in SessionEvents : Deliver(h, ev)
  \/ \E p \in pending : Resolve(p)
  \/ \E h \in Hosts : SocketClose(h)
  \/ \E h \in Hosts : Motd(h)

SpecSession == Init /\ [][NextSession]_vars

\* One network whose channel list lacks the channel that events name.
OrphanEvents ==
  {Ev("join", "#b", "alice", NoVal, NoVal), Ev("part", "#b", "alice", NoVal, NoVal),
   Ev("kick", "#b", "alice", "bob", NoVal), Ev("join", "#a", "alice", NoVal, NoVal)}

NextOrphan ==
  \/ IpcChannels(MemberHost, <<"a">>)
  \/ \E ev \in OrphanEvents : Deliver(MemberHost, ev)
  \/ \E p \in pending : Resolve(p)
  \/ SocketClose(MemberHost)

SpecOrphan == Init /\ [][NextOrphan]_vars

\* One network whose channel list names a channel twice.
DuplicateEvents ==
  {Ev("join", "#a", "alice", NoVal, NoVal), Ev("part", "#a", "alice", NoVal, NoVal),
   Ev("kick", "#a", "alice", "bob", NoVal), Ev("join", "#b", "bob", NoVal, NoVal)}

NextDuplicates ==
  \/ IpcChannels(MemberHost, <<"a", "a", "b">>)
  \/ \E ev \in DuplicateEvents : Deliver(MemberHost, ev)
  \/ \E p \in pending : Resolve(p)
  \/ SocketClose(MemberHost)

SpecDuplicates == Init /\ [][NextDuplicates]_vars

\* Reconnects of two networks whose connection may be renamed.
NextReady ==
  \/ \E h \in Hosts : SocketClose(h)
  \/ \E h \in Hosts : Motd(h)
  \/ \E h \in Hosts : \E u \in Users : UserChanged(h, u)

SpecReady == Init /\ [][NextReady]_vars

\* The persistence path: writes, retry sweeps and shutdown.
NextPersist ==
  \/ \E p \in Paths : \E isEvent \in BOOLEAN : WriteCall(p, isEvent)
  \/ \E r \in DOMAIN writes : \E o \in SqlOutcomes : SqlAttempt(r, o)
  \/ \E r \in DOMAIN writes : \E ok \in BOOLEAN : Fallback(r, ok)
  \/ \E r \in DOMAIN writes : \E ok \in BOOLEAN : EventAppend(r, ok)
  \/ \E p \in Paths : \E opened \in BOOLEAN :
       sweepsFired[p] < MaxSweeps /\ SweepFire(p, opened)
  \/ \E s \in sweeps : \E o \in SweepOutcomes : SweepInsert(s, o)
  \/ Sigint
  \/ BotClosed

SpecPersist == Init /\ [][NextPersist]_vars

\* The retry path of one store: writes that may fail, sweeps, no shutdown.
RetryPath == "p1"

NextRetry ==
  \/ WriteCall(RetryPath, FALSE)
  \/ \E r \in DOMAIN writes : \E o \in SqlOutcomes : SqlAttempt(r, o)
  \/ \E r \in DOMAIN writes : \E ok \in BOOLEAN : Fallback(r, ok)
  \/ \E opened \in BOOLEAN :
       sweepsFired[RetryPath] < MaxSweeps /\ SweepFire(RetryPath, opened)
  \/ \E s \in sweeps : \E o \in SweepOutcomes : SweepInsert(s, o)

SpecRetry == Init /\ [][NextRetry]_vars

\* The retry path under the scheduling the process gives it: the interval timer
\* of a path keeps firing and every issued INSERT gets its callback.
NextLive ==
  \/ Len(writes) < MaxLiveWrites /\ WriteCall(RetryPath, FALSE)
  \/ \E r \in DOMAIN writes : \E o \in SqlOutcomes : SqlAttempt(r, o)
  \/ \E r \in DOMAIN writes : \E ok \in BOOLEAN : Fallback(r, ok)
  \/ \E opened \in BOOLEAN : SweepFire(RetryPath, opened)
  \/ \E s \in sweeps : \E o \in SweepOutcomes : SweepInsert(s, o)

SpecLive ==
  /\ Init
  /\ [][NextLive]_vars
  /\ WF_vars(\E opened \in BOOLEAN : SweepFire(RetryPath, opened))
  /\ WF_vars(\E s \in sweeps : \E o \in SweepOutcomes : SweepInsert(s, o))

\* Shutdown while one store is being written.
NextShutdown ==
  \/ WriteCall(RetryPath, FALSE)
  \/ \E r \in DOMAIN writes : \E o \in SqlOutcomes : SqlAttempt(r, o)
  \/ \E r \in DOMAIN writes : \E ok \in BOOLEAN : Fallback(r, ok)
  \/ Sigint
  \/ BotClosed

SpecShutdown == Init /\ [][NextShutdown]_vars

\* The lifetime of the retry buffers: writes to either store that are stored or
\* fail busy, sweeps whose inserts are stored or busy again, and the shutdown
\* handler.
BufferOutcomes == {"ok", "busy"}

NextBuffers ==
  \/ \E p \in Paths : WriteCall(p, FALSE)
  \/ \E r \in DOMAIN writes : \E o \in BufferOutcomes : SqlAttempt(r, o)
  \/ \E p \in Paths : sweepsFired[p] < MaxSweeps /\ SweepFire(p, TRUE)
  \/ \E s \in sweeps : \E o \in BufferOutcomes : SweepInsert(s, o)
  \/ Sigint

SpecBuffers == Init /\ [][NextBuffers]_vars

\* Hot reload between the protocol events and IPC messages of one network.
NextReload ==
  \/ Deploy
  \/ Reload
  \/ IpcMessage
  \/ IpcChannels(MemberHost, <<"a">>)
  \/ IpcRegister(MemberHost, "#a")
  \/ \E ev \in SessionEvents : Deliver(MemberHost, ev)
  \/ \E p \in pending : Resolve(p)
  \/ WriteCall(RetryPath, FALSE)
  \/ \E r \in DOMAIN writes : SqlAttempt(r, "busy")

SpecReload == Init /\ [][NextReload]_vars

\* Shutdown with networks that may be disconnected or reconnecting; a quit that
\* went out on an open socket is answered by 'close'.
NextExit ==
  \/ \E h \in Hosts : SocketClose(h)
  \/ \E h \in Hosts : Motd(h)
  \/ Sigint
  \/ BotClosed
  \/ GaveUpReconnecting

SpecExit == Init /\ [][NextExit]_vars /\ WF_vars(BotClosed)

\* ------------------------------------------------------- claim vocabulary
WritesTo(p) == {r \in DOMAIN writes : writes[r].path = p}

\* The members of a set of record ids in ascending (call) order.
Ascending(S) ==
  CHOOSE q \in [1..Cardinality(S) -> S] :
    \A i \in 1..Cardinality(S) : \A j \in 1..Cardinality(S) : i < j => q[i] < q[j]

InBuffer(r) == \E p \in Paths : r \in Range(sqliteBuffer[p].entries)

InStore(r) == \E p \in Paths : r \in Range(store[p])

DroppedWithLog(r) == [kind |-> "Error reinserting buffered entry", rec |-> r] \in logs

\* Every record written to p failed busy on its first attempt, one sweep took
\* them all and has ended, and the store accepted each of its inserts.
AllBusyThenOneCleanSweep(p) ==
  /\ WritesTo(p) # {}
  /\ \A r \in WritesTo(p) : writes[r].first = "busy"
  /\ sweepsFired[p] = 1
  /\ sweepTook[p] = Cardinality(WritesTo(p))
  /\ sweepRejects[p] = 0
  /\ ~\E s \in sweeps : s.path = p

\* ------------------------------------------------------------------ claims
\* C1: once every delivered join/part/kick/quit/nick event has been handled
\* (no channel-name resolution is pending), the live-nick set of every channel
\* equals the set given by applying the section 4.2 rules in delivery order.
C1_MembershipMatchesRules ==
  pending = {} =>
    \A h \in Hosts : \A c \in CanonChannels :
      (specServers[h].present /\ HasChannel(specServers[h], c))
        => LiveOf(specServers[h], c) = refNicks[h][c]

\* C2: after a quit of nick n on network N has been handled together with every
\* event delivered before it, n is in no live-nick set of N.
C2_QuitLeavesNoResidue ==
  (lastEv.ev.type = "quit" /\ pending = {}) =>
    \A c \in CanonChannels : lastEv.ev.nick \notin LiveOf(specServers[lastEv.host], c)

\* C3: every run of the 'socket close' handler of network N leaves N without
\* membership entries and leaves the entries of every other network unchanged.
C3_CloseDiscardsMembership ==
  [][\A h \in Hosts :
       closes'[h] # closes[h] =>
         /\ ~specServers'[h].present
         /\ \A o \in Hosts \ {h} : specServers'[o] = specServers[o]]_vars

\* C4: the irc:ready records published for a network after startup are exactly
\* one per disconnect/reconnect cycle (a motd that ends a disconnect), and a
\* motd not preceded by a socket close publishes none.
C4_OneReadyPerCycle ==
  \A h \in Hosts : readyCount[h] = reconnects[h]


\* C5: a write whose insert fails busy completes without error (no fallback
\* line, nothing thrown or logged as an error), its record is appended at the
\* tail of the path's retry buffer, and afterwards the path's retry timer runs.
C5_BusyWriteIsBuffered ==
  [][\A r \in DOMAIN writes :
       (writes[r].pc = "stat" /\ writes'[r].pc = "busy") =>
         /\ sqliteBuffer'[writes[r].path].entries =
              Append(sqliteBuffer[writes[r].path].entries, r)
         /\ sqliteBuffer'[writes[r].path].timer
         /\ jsonl' = jsonl /\ rejections' = rejections /\ logs' = logs]_vars

C7_BufferedEventuallyStored ==
  \A r \in 1..MaxWrites : InBuffer(r) ~> (InStore(r) \/ DroppedWithLog(r))

\* A record that a sweep had to re-buffer and that a later sweep inserted.
C7_Witness ==
  \E r \in DOMAIN writes :
    /\ writes[r].first = "busy"
    /\ InStore(r)
    /\ sweepRejects[writes[r].path] > 0
    /\ sweepsFired[writes[r].path] > 1
    /\ ~InBuffer(r)

\* C8: no storage failure surfaces from a persistence write, neither as an
\* exception nor as an unhandled promise rejection.
C8_NoStorageFailureSurfaces == rejections = 0

\* C9: a record whose store could not be created or opened is appended as a
\* line to the plain file at the same path stem (once its fallback write, if
\* one was started, has ended without failing itself).
C9_OpenOrCreateFailureFallsBack ==
  \A r \in DOMAIN writes :
    (writes[r].first \in {"createFail", "openFail"}
       /\ writes[r].pc \notin {"fallback", "fallbackFailed"})
      => r \in Range(jsonl[writes[r].path])

\* C10: when the process has exited after the shutdown handler, every record
\* left in a retry buffer is in its store or its loss was reported.
C10_ShutdownDropsNothingSilently ==
  phase = "exited" =>
    \A p \in Paths : \A r \in Range(sqliteBuffer[p].entries) :
      r \in Range(store[p]) \/ \E l \in logs : l.rec = r

\* Seq s is an initial part of seq t.
IsPrefix(s, t) == Len(s) <= Len(t) /\ \A i \in 1..Len(s) : s[i] = t[i]

\* C11: on shutdown the networks are told to quit one at a time, in order, the
\* next only after the previous one's close was acknowledged; irc:exit is
\* published at most once, only when every network's close was acknowledged, and
\* the process exits exactly then.
C11_QuitOneByOneThenExit ==
  /\ IsPrefix(quitSent, HostOrder)
  /\ IsPrefix(closeAcks, quitSent)
  /\ Len(quitSent) <= Len(closeAcks) + 1
  /\ exitPublished <= 1
  /\ (exitPublished = 1) = (closeAcks = HostOrder)
  /\ (phase = "exited") = (exitPublished = 1)

C11_Witness ==
  /\ phase = "exited"
  /\ exitPublished = 1
  /\ closeAcks = HostOrder
  /\ Len(writes) > 0

\* C12: event handling is serialized: a protocol event is taken up only when no
\* earlier event's membership mutation is still outstanding.
C12_EventsSerialized == [][delivered' # delivered => pending = {}]_vars

\* The event handled last, as it was delivered.
LastEvent ==
  [type |-> lastMsg.type, target |-> lastMsg.target, from_server |-> lastMsg.from_server,
   nick |-> lastMsg.nick]

Handled == lastMsg.host # NoVal

\* C13: the kind of a message event becomes privmsg exactly when it came as a
\* notice with a non-empty target, not from the server, and a handler is
\* registered for the network and the lower-cased target; otherwise the kind is
\* the one it came with.
C13_ReclassifiedExactlyWhen ==
  Handled =>
    lastOut.kind =
      IF /\ lastMsg.type = "notice"
         /\ lastMsg.target \notin {Absent, NoVal}
         /\ ~lastMsg.from_server
         /\ toLowerCase(lastMsg.target) \in lastMsg.reg
        THEN "privmsg"
        ELSE lastMsg.type

C13_Witness ==
  /\ Handled
  /\ lastMsg.type = "notice"
  /\ lastMsg.target = "#A"
  /\ ~lastMsg.from_server
  /\ "#a" \in lastMsg.reg
  /\ lastOut.kind = "privmsg"

\* What the listener does with the event handled last had it come as a privmsg.
AsPrivmsg ==
  MessageHandler(lastMsg.host, [LastEvent EXCEPT !.type = "privmsg"], lastMsg.reg,
                 channelsToFile)

\* C14: a notice that is not from the server and whose target has a registered
\* handler is published (channel and payload) and persisted (file name and
\* record) exactly as the same event of kind privmsg.
C14_NoticeHandledAsPrivmsg ==
  (/\ Handled
   /\ lastMsg.type = "notice"
   /\ ~lastMsg.from_server
   /\ toLowerCase(lastMsg.target) \in lastMsg.reg)
  => /\ lastOut.pubs = AsPrivmsg.pubs
     /\ lastOut.logCall = AsPrivmsg.logCall
     /\ lastOut.error = AsPrivmsg.error

C14_Witness ==
  /\ Handled
  /\ lastMsg.type = "notice"
  /\ ~lastMsg.from_server
  /\ lastMsg.target = "#A"
  /\ "#a" \in lastMsg.reg
  /\ Len(lastOut.pubs) = 1
  /\ lastOut.pubs[1].type = "irc:message"
  /\ lastOut.pubs[1].data.type = "privmsg"
  /\ Len(lastOut.logCall) = 1
  /\ lastOut.logCall[1].file = "#A"

\* The event handled last is addressed to the bridge's own nickname, or is a
\* notice from the server.
SelfNotice ==
  /\ Handled
  /\ \/ lastMsg.target = OwnNick
     \/ lastMsg.type = "notice" /\ lastMsg.from_server

\* C15: a self-notice is published exactly once, as irc:notice, and never as
\* irc:message, also when a handler is registered for its target.
C15_SelfNoticePublishedOnce ==
  SelfNotice =>
    /\ Len(lastOut.pubs) = 1
    /\ lastOut.pubs[1].type = "irc:notice"

\* C16: an event that is not a self-notice and has no handler registered for its
\* network and lower-cased target (a target that is empty or missing included)
\* is published nowhere and raises no error.
C16_NoHandlerSilentlyDropped ==
  (/\ Handled
   /\ ~SelfNotice
   /\ toLowerCase(lastMsg.target) \notin lastMsg.reg)
  => /\ lastOut.pubs = <<>>
     /\ lastOut.error = "none"

NetworksOf(c) == {c[i].host : i \in 1..Len(c)}

\* C17: connectIRCClient resolves (the session is stored) only after the
\* server's 'registered' event, never on the socket opening alone; irc:connecting
\* for the network is published before that event, and the startup irc:ready
\* that names the network after it.
C17_ResolvesOnRegistration ==
  \A h \in NetworksOf(registered) :
    /\ (h \in bots) = (Pos("resolved", h) # 0)
    /\ Pos("resolved", h) # 0 =>
         /\ Pos("registered", h) # 0
         /\ Pos("registered", h) < Pos("resolved", h)
    /\ Pos("registered", h) # 0 =>
         /\ Pos("irc:connecting", h) # 0
         /\ Pos("irc:connecting", h) < Pos("registered", h)
    /\ Pos("irc:ready", h) # 0 =>
         /\ Pos("registered", h) # 0
         /\ Pos("registered", h) < Pos("irc:ready", h)
    /\ (bootPc = "ready" /\ h # NoVal) => Pos("irc:ready", h) # 0

C17_Witness ==
  /\ bootPc = "ready"
  /\ Len(registered) = 2
  /\ \A h \in NetworksOf(registered) :
       /\ Pos("socket connected", h) # 0
       /\ Pos("irc:ready", h) # 0
       /\ h \in bots

\* No connection was attempted for the network: nothing published, no connect,
\* no session, no registration.
NeverAttempted(h) ==
  /\ Pos("irc:connecting", h) = 0
  /\ Pos("connect", h) = 0
  /\ Pos("registered", h) = 0
  /\ h \notin bots

\* A BEGIN PRIVATE KEY marker that is not at offset 0.
KeyNotAtStart(file) == \E k \in 2..Len(file) : file[k] = "BK"

\* C18: when the certificate file of a network has its BEGIN PRIVATE KEY marker
\* anywhere but at offset 0, no connection is attempted for that network:
\* no irc:connecting, no session, never registered; and once the loop has
\* reached the network, startup has failed.
C18_KeyNotAtStartFails ==
  \A i \in 1..Len(registered) :
    (registered[i].cert.fromFile /\ KeyNotAtStart(registered[i].cert.file))
    => /\ NeverAttempted(registered[i].host)
       /\ bootIdx <= i
       /\ bootIdx = i => bootPc \in {"loop", "failed"}

C18_Witness ==
  /\ bootPc = "failed"
  /\ bootError = "pk start"
  /\ registered[bootIdx].cert.file = <<"text", "BK", "EK">>
  /\ NeverAttempted(registered[bootIdx].host)

\* The markers of a file, in order.
Markers(file) == SelectSeq(file, LAMBDA part : part # "text")

\* Exactly a private key block at offset 0 and then a certificate block.
TwoCompleteBlocks(file) ==
  /\ Markers(file) = <<"BK", "EK", "BC", "EC">>
  /\ file[1] = "BK"

\* C19: a certificate file that does not hold exactly two complete blocks,
\* private key first, makes connectIRCClient fail: no connection is attempted
\* for the network.
C19_OnlyTwoBlocksAccepted ==
  \A i \in 1..Len(registered) :
    (registered[i].cert.fromFile /\ ~TwoCompleteBlocks(registered[i].cert.file))
    => NeverAttempted(registered[i].host)

\* C20: when startup fails on a configuration error, no connection was
\* attempted for any network, wherever the faulty entry stands.
C20_ConfigErrorBeforeAnyConnect ==
  bootError \in {"bad server spec", "duplicate server spec"}
  => \A h \in NetworksOf(registered) : NeverAttempted(h)

\* Errors thrown by the certificate part of connectIRCClient.
CertErrors == {"pk start", "bad start!", "bad cert parse", "TypeError"}

\* C21: a failure of one network's connect (a certificate error) does not stop
\* startup: main is not rejected by it, and the other networks can still be
\* connected and announced.
C21_NetworkFailureStaysLocal ==
  bootError \in CertErrors => bootPc # "failed"

\* This step handles a nick event on a network that has membership entries.
NickHandled ==
  /\ delivered' # delivered
  /\ lastEv'.ev.type = "nick"
  /\ specServers[lastEv'.host].present

\* The live-nick set of entry i of the network of the nick event, before and
\* after the step.
SetBefore(i) == specServers[lastEv'.host].channels[i].liveNicks

SetAfter(i) == specServers'[lastEv'.host].channels[i].liveNicks

WellFormedPong ==
  /\ ~lastPong.absent
  /\ Len(split(lastPong.message)) > 1
  /\ StartsWithMarker(split(lastPong.message)[1])
  /\ split(lastPong.message)[2] # <<>>
  /\ Number(split(lastPong.message)[2]) # NaN

\* C23: a pong whose message is the marker, the separator and a timestamp
\* publishes one irc:pong whose latency is the clock minus the timestamp; any
\* other pong publishes nothing, leaves the stored latency of the network as it
\* was and raises no error.
C23_PongPublishedIffMarked ==
  lastPong.host # NoVal =>
    IF WellFormedPong
      THEN /\ Len(pongOut.pubs) = 1
           /\ pongOut.pubs[1].type = "irc:pong"
           /\ pongOut.pubs[1].latencyToIRC =
                lastPong.now - Number(split(lastPong.message)[2])
      ELSE /\ pongOut.pubs = <<>>
           /\ latency[lastPong.host] = lastPong.before
           /\ pongOut.error = "none"

\* The nick a part or kick event acts upon: the parting nick, the kicked nick.
ActedUpon(ev) == IF ev.type = "kick" THEN ev.kicked ELSE ev.nick

\* C24: when the handling of a part or kick event on a channel with a membership
\* entry completes, the acted-upon nick (parting nick, kicked nick) is removed
\* from that channel's live-nick set, and no other set changes.
C24_PartKickRemoveActedUpon ==
  [][\A p \in pending \ pending' :
       (/\ p.ev.type \in {"part", "kick"}
        /\ specServers[p.host].present
        /\ HasChannel(specServers[p.host], resolveNameForDiscord(p.host, p.ev.channel)))
       => \A c \in CanonChannels :
            LiveOf(specServers'[p.host], c) =
              IF c = resolveNameForDiscord(p.host, p.ev.channel)
                THEN LiveOf(specServers[p.host], c) \ {ActedUpon(p.ev)}
                ELSE LiveOf(specServers[p.host], c)]_vars

\* Index of the first occurrence of x in q, 0 when there is none.
IndexIn(q, x) ==
  IF \E k \in 1..Len(q) : q[k] = x
    THEN CHOOSE k \in 1..Len(q) : q[k] = x /\ \A j \in 1..(k - 1) : q[j] # x
    ELSE 0

\* C25 as stated: in the retry buffer of a path, a record that was buffered
\* before another stands ahead of it, at every moment.
C25_BufferFifoAlways ==
  \A p \in Paths :
    \A i, j \in 1..Len(sqliteBuffer[p].entries) :
      i < j => IndexIn(busyOrder[p], sqliteBuffer[p].entries[i])
                 < IndexIn(busyOrder[p], sqliteBuffer[p].entries[j])

\* C25 amended: a retry buffer changes only by records being appended at its
\* tail or by a sweep taking all of it; a sweep attempts the records it took
\* from the head on, in the order the buffer had, and when it ends appends the
\* records that were still busy, in that order, at the tail, behind whatever
\* was buffered while it ran.
C25_BufferAppendsAtTail ==
  [][/\ \A p \in Paths :
          \/ IsPrefix(sqliteBuffer[p].entries, sqliteBuffer'[p].entries)
          \/ /\ sqliteBuffer'[p].entries = <<>>
             /\ \E s \in sweeps' \ sweeps :
                  s.path = p /\ s.todo = sqliteBuffer[p].entries /\ s.failed = <<>>
      /\ \A s \in sweeps \ sweeps' :
           \/ /\ Len(s.todo) = 1
              /\ sqliteBuffer'[s.path].entries \in
                   {sqliteBuffer[s.path].entries \o s.failed,
                    sqliteBuffer[s.path].entries \o Append(s.failed, Head(s.todo))}
           \/ /\ Len(s.todo) > 1
              /\ \E t \in sweeps' \ sweeps :
                   /\ t.path = s.path
                   /\ t.todo = Tail(s.todo)
                   /\ t.failed \in {s.failed, Append(s.failed, Head(s.todo))}
              /\ sqliteBuffer'[s.path].entries = sqliteBuffer[s.path].entries]_vars

\* A record re-buffered by a sweep stands behind a record that was first
\* buffered after it.
C25_Witness ==
  \E i, j \in 1..Len(sqliteBuffer[RetryPath].entries) :
    /\ i < j
    /\ IndexIn(busyOrder[RetryPath], sqliteBuffer[RetryPath].entries[i])
         > IndexIn(busyOrder[RetryPath], sqliteBuffer[RetryPath].entries[j])
    /\ sweepRejects[RetryPath] > 0

\* C26: no call of adjustChannelUsersOnEvent ends in an uncaught exception or
\* an unhandled promise rejection, also when the socket of the network closes
\* while the channel-name resolution of a join/part/kick is pending.
C26_AdjustNeverRejects == unhandled = 0

\* The channel named by event ev has no membership entry on network h.
NoEntryFor(h, ev) ==
  ~specServers[h].present
    \/ ~HasChannel(specServers[h], resolveNameForDiscord(h, ev.channel))

\* The handling of an event that names a channel without entry completes.
OrphanResolved ==
  \A p \in pending \ pending' :
    NoEntryFor(p.host, p.ev) => (specServers' = specServers /\ unhandled' = unhandled)

\* A join, part or kick arrives for a network without entries.
OrphanArrived ==
  (/\ delivered' # delivered
   /\ lastEv'.ev.type \in {"join", "part", "kick"}
   /\ ~specServers[lastEv'.host].present)
  => (specServers' = specServers /\ pending' = pending /\ unhandled' = unhandled)

\* C27: a join, part or kick naming a channel without membership entry, also
\* one whose network lost its entries on socket close, creates no entry, changes
\* no live-nick set and lets no exception escape.
C27_NoEntryNoEffect == [][OrphanResolved /\ OrphanArrived]_vars

\* Where a record can be: in a retry buffer, waiting in a sweep, set aside by a
\* sweep as still busy, in a store, or dropped with a log line.
Places(r) ==
  {k \in {"buffer", "todo", "failed", "store", "dropped"} :
     CASE k = "buffer" -> InBuffer(r)
       [] k = "todo" -> \E s \in sweeps : r \in Range(s.todo)
       [] k = "failed" -> \E s \in sweeps : r \in Range(s.failed)
       [] k = "store" -> InStore(r)
       [] OTHER -> DroppedWithLog(r)}

\* C28: a buffered record whose insert in a sweep fails with a non-transient
\* error is logged and from then on neither in a buffer nor in any sweep; a
\* record whose insert fails busy is kept by the sweep and is back in the
\* buffer when the sweep has ended. So a record that was ever buffered is at
\* every moment in exactly one place.
C28_SweepDropsOrRebuffers ==
  \A r \in DOMAIN writes :
    writes[r].first = "busy" => Cardinality(Places(r)) = 1

\* A sweep has ended in which one record failed with an error and another was
\* still busy.
C28_Witness ==
  /\ sweeps = {}
  /\ \E r, q \in DOMAIN writes :
       /\ Places(r) = {"dropped"}
       /\ Places(q) = {"buffer"}
       /\ sweepsFired[RetryPath] = 1
       /\ sweepTook[RetryPath] = 2
       /\ sweepRejects[RetryPath] = 2

\* C29: when events are persisted to files, every self-notice is filed under
\* the nick that sent it and not under its target.
C29_SelfNoticeFiledUnderSender ==
  (SelfNotice /\ channelsToFile) =>
    /\ Len(lastOut.logCall) = 1
    /\ lastOut.logCall[1].file = lastMsg.nick

\* C30: a store path has at most one retry buffer and one retry timer, made
\* together; it has them exactly when a write to the path has failed busy, so
\* not before the first such failure and from then on also when the buffer is
\* empty again; and the timer of an existing buffer runs as long as the
\* shutdown handler has not run.
C30_OneLazyBufferPerPath ==
  \A p \in Paths :
    /\ sqliteBuffer[p].created <= 1
    /\ sqliteBuffer[p].exists <=> sqliteBuffer[p].created = 1
    /\ sqliteBuffer[p].exists <=> busyOrder[p] # <<>>
    /\ sqliteBuffer[p].timer => sqliteBuffer[p].exists
    /\ (sqliteBuffer[p].exists /\ phase = "running") => sqliteBuffer[p].timer

\* The buffer of a path has drained through a sweep and is still there with
\* its timer, while the other path has never had one.
C30_Witness ==
  /\ phase = "running"
  /\ sweeps = {}
  /\ \E p, q \in Paths :
       /\ sweepsFired[p] > 0
       /\ Len(busyOrder[p]) = 2
       /\ sqliteBuffer[p] = [exists |-> TRUE, entries |-> <<>>, timer |-> TRUE, created |-> 1]
       /\ writes # <<>> /\ \A r \in WritesTo(p) : InStore(r)
       /\ sqliteBuffer[q] = NoBuffer

\* A suspended call whose channel resolves to more than one chanSpec of its
\* network.
MatchesSeveral(p) ==
  /\ specServers[p.host].present
  /\ Cardinality(chanSpecs(specServers[p.host].channels,
                           resolveNameForDiscord(p.host, p.ev.channel))) > 1

\* C31: when the resolved channel name matches more than one chanSpec of the
\* network, the call publishes exactly one irc:warning:duplicateChannelSpecs
\* record and ends without an exception or a rejected promise.
C31_DuplicatesWarnOnce ==
  [][\A p \in pending :
       (p \notin pending' /\ MatchesSeveral(p)) =>
         (warnings' = warnings + 1 /\ unhandled' = unhandled)]_vars

\* Two events for the doubled channel have been handled: two warnings, the
\* first chanSpec mutated, nothing rejected.
C31_Witness ==
  /\ warnings = 2
  /\ pending = {}
  /\ unhandled = 0
  /\ specServers[MemberHost].present
  /\ Len(specServers[MemberHost].channels) = 3
  /\ specServers[MemberHost].channels[1].liveNicks = {"alice"}
  /\ specServers[MemberHost].channels[2].liveNicks = {}

\* C32: the irc:ready record published after a reconnect carries the nickname
\* the bridge has on that network at that moment, also when it is no longer
\* the configured one, and the user modes the connection has at that moment.
C32_ReadyCarriesCurrentNick ==
  lastReady # NoReady =>
    /\ lastReady.record.nickname = lastReady.user.nick
    /\ lastReady.record.userModes = lastReady.user.modes

Count(q, r) == Cardinality({i \in 1..Len(q) : q[i] = r})

RECURSIVE InSweeps(_, _)
\* How often record r stands in the batches (still to do or set aside as busy)
\* of the sweeps S.
InSweeps(S, r) ==
  IF S = {} THEN 0
  ELSE LET s == CHOOSE x \in S : TRUE
       IN  Count(s.todo, r) + Count(s.failed, r) + InSweeps(S \ {s}, r)

\* The copies of record r held on the retry path of store path p: in its
\* buffer, in its sweeps, in its store.
Held(p, r) ==
  Count(sqliteBuffer[p].entries, r) + InSweeps({s \in sweeps : s.path = p}, r)
    + Count(store[p], r)

\* C34: a record handed to the retry path is held exactly once: in the buffer
\* of its path, in the batch of one sweep in progress, in the store, or as a
\* logged drop; overlapping sweeps have no record in common, and no record is
\* in the store twice.
C34_RetriedRecordHeldOnce ==
  /\ \A r \in DOMAIN writes :
       writes[r].first = "busy" =>
         /\ Held(writes[r].path, r) + (IF DroppedWithLog(r) THEN 1 ELSE 0) = 1
         /\ \A p \in Paths \ {writes[r].path} : Held(p, r) = 0
  /\ \A s \in sweeps : \A t \in sweeps \ {s} :
       (Range(s.todo) \cup Range(s.failed)) \cap (Range(t.todo) \cup Range(t.failed)) = {}
  /\ \A p \in Paths : \A r \in DOMAIN writes : Count(store[p], r) <= 1

\* Two sweeps of the same path are in progress at once, each with a record.
C34_Witness ==
  \E s \in sweeps : \E t \in sweeps \ {s} :
    /\ s.path = t.path
    /\ s.todo # <<>> /\ t.todo # <<>>

\* C35: once the shutdown handler has started, irc:exit is eventually published
\* and the process exits, whatever the connection state of each network was,
\* a network with a closed socket that has not re-registered included.
C35_ShutdownCompletes ==
  (phase = "quitting") ~> (phase = "exited" /\ exitPublished = 1)

\* C36: whenever the LogStream is active, StreamManager.streams holds it under
\* its streamId, also after it has restarted itself.
C36_ActiveStreamIsRegistered == ls.active => streams

\* C37: once stopStream has stopped the stream it is never active again and no
\* log process is started for it.
C37_StoppedStaysStopped ==
  stopRequested => (~ls.active /\ ~afterStop.activated /\ ~afterStop.spawned)

\* C38: whenever the LogStream is inactive it has no running log process and
\* no heartbeat timer.
C38_InactiveHoldsNothing ==
  ~ls.active => (~ls.heartbeat /\ \A i \in ProcIds : procs[i] # "running")

\* C39: every call of checkLogManagerHealth that is waiting eventually settles,
\* resolved by its response or rejected by its timeout, also when another call
\* was made before it settled.
C39_HealthCheckSettles ==
  \A id \in RequestIds :
    (checks[id] = "pending") ~> (checks[id] \in {"resolved", "rejected"})

\* C40: after init(), when no add or delete call is in flight, the cache of
\* the RedisSet holds exactly the members of the set in Redis.
C40_CacheEqualsRedisWhenQuiet ==
  (inited /\ setCalls = {}) => cache = redisMembers

====
